---------------------------- MODULE Spec2Model ----------------------------
(***************************************************************************)
(* Model of the mediV backend: the vitals extraction pipeline              *)
(* (backend/main.py), the Groq diagnosis flow (backend/main.py) and the    *)
(* prescription keyword-match engine (prescription_module).                *)
(*                                                                         *)
(* Text is a TLA+ string; Python values (JSON values) are records tagged   *)
(* by the field t: "null", "bool", "num", "str", "arr", "obj".  Python's   *)
(* None is the JSON null.                                                  *)
(***************************************************************************)
EXTENDS Integers, Sequences, FiniteSets, TLC

(***************************************************************************)
(* Python str primitives                                                   *)
(***************************************************************************)

\* s[i] for a 1-based index
At(s, i) == SubSeq(s, i, i)

\* the characters str.strip() and the regex class \s remove / match
Whitespace == {" ", "\t", "\n", "\r"}

Digits == {"0", "1", "2", "3", "4", "5", "6", "7", "8", "9"}

UpperLetters == "ABCDEFGHIJKLMNOPQRSTUVWXYZ"

LowerLetters == "abcdefghijklmnopqrstuvwxyz"

\* the typographic quotation marks U+201C, U+201D, U+2018, U+2019 are
\* written with four characters that occur nowhere else in the texts
LDQuote == "<"

RDQuote == ">"

LSQuote == "^"

RSQuote == "~"

\* the degree sign U+00B0, written likewise
DegreeSign == "$"

\* the backtick, which a TLA+ string cannot hold, written likewise
Backtick == "@"

\* the markdown code fence, three backticks
Fence == Backtick \o Backtick \o Backtick

LowerChar(c) ==
    IF \E i \in 1..26 : At(UpperLetters, i) = c
    THEN At(LowerLetters, CHOOSE i \in 1..26 : At(UpperLetters, i) = c)
    ELSE c

UpperChar(c) ==
    IF \E i \in 1..26 : At(LowerLetters, i) = c
    THEN At(UpperLetters, CHOOSE i \in 1..26 : At(LowerLetters, i) = c)
    ELSE c

RECURSIVE MapChars(_, _, _)
\* apply the character map f to s from position i on
MapChars(s, i, upper) ==
    IF i > Len(s) THEN ""
    ELSE (IF upper THEN UpperChar(At(s, i)) ELSE LowerChar(At(s, i)))
         \o MapChars(s, i + 1, upper)

\* str.lower()
Lower(s) == MapChars(s, 1, FALSE)

\* str.upper()
Upper(s) == MapChars(s, 1, TRUE)

RECURSIVE LStrip(_)
LStrip(s) == IF Len(s) > 0 /\ At(s, 1) \in Whitespace
             THEN LStrip(SubSeq(s, 2, Len(s))) ELSE s

RECURSIVE RStrip(_)
RStrip(s) == IF Len(s) > 0 /\ At(s, Len(s)) \in Whitespace
             THEN RStrip(SubSeq(s, 1, Len(s) - 1)) ELSE s

\* str.strip()
Strip(s) == RStrip(LStrip(s))

\* sub occurs in s at position i
OccursAt(sub, s, i) == i >= 1 /\ i + Len(sub) - 1 <= Len(s)
                       /\ SubSeq(s, i, i + Len(sub) - 1) = sub

\* sub in s
Contains(sub, s) == \E i \in 1..(Len(s) + 1) : OccursAt(sub, s, i)

\* str.find(c): 1-based position of the first occurrence, 0 when absent
\* (Python's -1)
Find(s, c) == IF \E i \in 1..Len(s) : At(s, i) = c
              THEN CHOOSE i \in 1..Len(s) :
                       At(s, i) = c /\ \A j \in 1..(i - 1) : At(s, j) # c
              ELSE 0

\* str.rfind(c): 1-based position of the last occurrence, 0 when absent
RFind(s, c) == IF \E i \in 1..Len(s) : At(s, i) = c
               THEN CHOOSE i \in 1..Len(s) :
                        At(s, i) = c /\ \A j \in (i + 1)..Len(s) : At(s, j) # c
               ELSE 0

RECURSIVE ReplaceChar(_, _, _)
\* str.replace(a, b) for one-character a
ReplaceChar(s, a, b) ==
    IF s = "" THEN ""
    ELSE (IF At(s, 1) = a THEN b ELSE At(s, 1))
         \o ReplaceChar(SubSeq(s, 2, Len(s)), a, b)

RECURSIVE FlatHalves(_)
\* concatenation of a sequence of sequences, by halves
FlatHalves(ss) ==
    IF Len(ss) = 0 THEN << >>
    ELSE IF Len(ss) = 1 THEN ss[1]
    ELSE FlatHalves(SubSeq(ss, 1, Len(ss) \div 2))
         \o FlatHalves(SubSeq(ss, (Len(ss) \div 2) + 1, Len(ss)))

\* concatenation of a sequence of sequences
FlatSeq(ss) == FlatHalves(ss \o << >>)

RECURSIVE NatToStr(_)
\* str(n) for a natural number n
NatToStr(n) == IF n < 10 THEN At("0123456789", n + 1)
               ELSE NatToStr(n \div 10) \o At("0123456789", (n % 10) + 1)

\* str(n) for an integer n
IntToStr(n) == IF n < 0 THEN "-" \o NatToStr(0 - n) ELSE NatToStr(n)

RECURSIVE StrToNat(_, _)
\* int(s) for a string of decimal digits, acc the value read so far
StrToNat(s, acc) ==
    IF s = "" THEN acc
    ELSE StrToNat(SubSeq(s, 2, Len(s)),
                  acc * 10 + (CHOOSE d \in 0..9 : At("0123456789", d + 1) = At(s, 1)))

RECURSIVE Pow10(_)
Pow10(n) == IF n = 0 THEN 1 ELSE 10 * Pow10(n - 1)

(***************************************************************************)
(* Python re: a backtracking matcher.  A pattern is a record tagged by op: *)
(* "chr" (one character of the set cs), "lit" (the literal string str),     *)
(* "any" (any character, [\s\S]),                                          *)
(* "cat" (the patterns rs in sequence), "alt" (the alternatives rs, tried  *)
(* in order), "rep" (between min and max repetitions of r, greedy or        *)
(* lazy), "grp" (capturing group n around r).  A match attempt yields the   *)
(* outcomes [p: end position, c: captured groups] in the order in which     *)
(* a backtracking matcher tries them; the first one is the match.           *)
(***************************************************************************)

\* an upper bound standing for "no upper limit" in *, + and {n,}
ReInf == 9999

ReChr(cs) == [op |-> "chr", cs |-> cs]

ReAny == [op |-> "any"]

ReCat(rs) == [op |-> "cat", rs |-> rs]

ReAlt(rs) == [op |-> "alt", rs |-> rs]

ReRep(r, min, max) == [op |-> "rep", r |-> r, min |-> min, max |-> max, greedy |-> TRUE]

ReLazy(r, min, max) == [op |-> "rep", r |-> r, min |-> min, max |-> max, greedy |-> FALSE]

ReOpt(r) == ReRep(r, 0, 1)

ReStar(r) == ReRep(r, 0, ReInf)

RePlus(r) == ReRep(r, 1, ReInf)

ReGrp(n, r) == [op |-> "grp", n |-> n, r |-> r]

\* a literal string, each character matched exactly
ReLit(str) == [op |-> "lit", str |-> str]

\* a literal string under re.IGNORECASE
ReLitI(str) == ReCat([i \in 1..Len(str) |->
                        ReChr({LowerChar(At(str, i)), UpperChar(At(str, i))})])

\* \s
ReS == ReChr(Whitespace)

\* \d
ReD == ReChr(Digits)

\* no group has captured anything
NoCaps == [n \in 1..2 |-> ""]

\* the character at position k of s matches the one-character pattern r
CharMatches(r, s, k) == k <= Len(s) /\ (r.op = "any" \/ At(s, k) \in r.cs)

\* the number of consecutive characters from i on that match the
\* one-character pattern r, at most max
RunLength(r, s, i, max) ==
    CHOOSE n \in 0..(Len(s) + 1 - i) :
        /\ n <= max
        /\ \A k \in i..(i + n - 1) : CharMatches(r, s, k)
        /\ (n = max \/ ~CharMatches(r, s, i + n))

RECURSIVE ReMatch(_, _, _, _)
ReMatch(re, s, i, caps) ==
    CASE re.op = "chr" ->
           IF i <= Len(s) /\ At(s, i) \in re.cs
           THEN << [p |-> i + 1, c |-> caps] >> ELSE << >>
      [] re.op = "lit" ->
           IF OccursAt(re.str, s, i)
           THEN << [p |-> i + Len(re.str), c |-> caps] >> ELSE << >>
      [] re.op = "any" ->
           IF i <= Len(s) THEN << [p |-> i + 1, c |-> caps] >> ELSE << >>
      [] re.op = "cat" ->
           IF Len(re.rs) = 0 THEN << [p |-> i, c |-> caps] >>
           ELSE LET first == ReMatch(Head(re.rs), s, i, caps)
                    rest  == ReCat(Tail(re.rs))
                IN  FlatSeq([k \in 1..Len(first) |->
                               ReMatch(rest, s, first[k].p, first[k].c)])
      [] re.op = "alt" ->
           FlatSeq([k \in 1..Len(re.rs) |-> ReMatch(re.rs[k], s, i, caps)])
      [] re.op = "rep" /\ re.r.op \in {"chr", "any"} ->
           \* repetitions of one character: the run of n matching characters
           \* gives the ends i+min .. i+n, longest first when greedy
           LET n   == RunLength(re.r, s, i, re.max)
               cnt == IF n >= re.min THEN n - re.min + 1 ELSE 0
           IN  [k \in 1..cnt |->
                  [p |-> IF re.greedy THEN i + n - (k - 1) ELSE i + re.min + (k - 1),
                   c |-> caps]]
      [] re.op = "rep" ->
           LET once == IF re.max = 0 THEN << >> ELSE ReMatch(re.r, s, i, caps)
               next == [re EXCEPT !.min = IF @ > 0 THEN @ - 1 ELSE 0,
                                  !.max = @ - 1]
               more == FlatSeq([k \in 1..Len(once) |->
                                  IF once[k].p > i
                                  THEN ReMatch(next, s, once[k].p, once[k].c)
                                  ELSE << >>])
               stop == IF re.min = 0 THEN << [p |-> i, c |-> caps] >> ELSE << >>
           IN  IF re.greedy THEN more \o stop ELSE stop \o more
      [] re.op = "grp" ->
           LET inner == ReMatch(re.r, s, i, caps)
           IN  [k \in 1..Len(inner) |->
                  [p |-> inner[k].p,
                   c |-> [inner[k].c EXCEPT ![re.n] = SubSeq(s, i, inner[k].p - 1)]]]

\* the start positions at which re matches s
MatchStarts(re, s) ==
    {i \in 1..(Len(s) + 1) : Len(ReMatch(re, s, i, NoCaps)) > 0}

\* the match of re at start position i of s, by its first outcome
MatchAt(re, s, i, ms) ==
    [found |-> TRUE, start |-> i, end |-> ms[1].p, g |-> ms[1].c]

\* the scan of re.search over the start positions: found is FALSE for None,
\* otherwise the match is the one at the leftmost start, spans
\* s[start .. end-1] and g holds the captured groups
LeftmostMatch(re, s, starts) ==
    IF starts = {}
    THEN [found |-> FALSE, start |-> 0, end |-> 0, g |-> NoCaps]
    ELSE \* the smallest start
         MatchAt(re, s, CHOOSE i \in starts : \A j \in starts : i <= j,
                 ReMatch(re, s, CHOOSE i \in starts : \A j \in starts : i <= j, NoCaps))

\* re.search(re, s)
ReSearch(re, s) == LeftmostMatch(re, s, MatchStarts(re, s))

(***************************************************************************)
(* extract_vitals_regex (backend/main.py): the pattern lists, in the       *)
(* source's order.                                                         *)
(***************************************************************************)

\* [:\s]+
ReSep == RePlus(ReChr({":"} \cup Whitespace))

\* (\d{2,3}) as group n
ReNum23(n) == ReGrp(n, ReRep(ReD, 2, 3))

\* [\/\-]
ReSlashDash == ReChr({"/", "-"})

\* (?:is\s+)?
ReOptIs == ReOpt(ReCat(<<ReLit("is"), RePlus(ReS)>>))

\* (?:of\s+)?
ReOptOf == ReOpt(ReCat(<<ReLit("of"), RePlus(ReS)>>))

\* (\d{2}\.?\d?) as group 1
ReTempNum == ReGrp(1, ReCat(<<ReRep(ReD, 2, 2), ReOpt(ReChr({"."})), ReOpt(ReD)>>))

\* (\d{2,3}\.?\d?) as group 1
ReWeightNum == ReGrp(1, ReCat(<<ReRep(ReD, 2, 3), ReOpt(ReChr({"."})), ReOpt(ReD)>>))

\* (?:kg|kilograms?|kilos?)
ReKg == ReAlt(<<ReLit("kg"),
                ReCat(<<ReLit("kilogram"), ReOpt(ReLit("s"))>>),
                ReCat(<<ReLit("kilo"), ReOpt(ReLit("s"))>>)>>)

\* (?:saturation|sat)
ReSatWord == ReAlt(<<ReLit("saturation"), ReLit("sat")>>)

\* (?:sat|saturation)
ReSatWord2 == ReAlt(<<ReLit("sat"), ReLit("saturation")>>)

bp_patterns == <<
    ReCat(<<ReLit("bp"), ReSep, ReNum23(1), ReSlashDash, ReNum23(2)>>),
    ReCat(<<ReLit("blood"), RePlus(ReS), ReLit("pressure"), ReSep,
            ReNum23(1), ReSlashDash, ReNum23(2)>>),
    ReCat(<<ReLit("pressure"), ReSep, ReNum23(1), ReSlashDash, ReNum23(2)>>),
    ReCat(<<ReNum23(1), ReSlashDash, ReNum23(2), ReStar(ReS),
            ReAlt(<<ReLit("mmhg"), ReLit("bp")>>)>>),
    ReCat(<<ReNum23(1), ReStar(ReS), ReLit("over"), ReStar(ReS), ReNum23(2)>>) >>

temp_patterns == <<
    ReCat(<<ReLit("temp"), ReOpt(ReLit("erature")), ReSep, ReTempNum>>),
    ReCat(<<ReTempNum, ReStar(ReS),
            ReOpt(ReAlt(<<ReCat(<<ReLit("degree"), ReOpt(ReLit("s"))>>), ReLit(DegreeSign)>>)),
            ReStar(ReS),
            ReAlt(<<ReLit("celsius"), ReLit("c"), ReLit("f")>>)>>),
    ReCat(<<ReTempNum, ReStar(ReS), ReLit("degree"), ReOpt(ReLit("s"))>>) >>

pulse_patterns == <<
    ReCat(<<ReLit("pulse"), ReSep, ReOptIs, ReNum23(1)>>),
    ReCat(<<ReLit("heart"), RePlus(ReS), ReLit("rate"), ReSep, ReOptIs, ReNum23(1)>>),
    ReCat(<<ReLit("hr"), ReSep, ReOptIs, ReNum23(1)>>),
    ReCat(<<ReNum23(1), ReStar(ReS), ReLit("bpm")>>),
    ReCat(<<ReLit("pulse"), RePlus(ReS), ReOptOf, ReNum23(1)>>),
    ReCat(<<ReLit("heart"), RePlus(ReS), ReLit("rate"), RePlus(ReS), ReOptOf, ReNum23(1)>>),
    ReCat(<<ReNum23(1), ReStar(ReS),
            ReOpt(ReCat(<<ReLit("beat"), ReOpt(ReLit("s")), RePlus(ReS)>>)),
            ReLit("per"), RePlus(ReS), ReLit("minute")>>) >>

spo2_patterns == <<
    ReCat(<<ReLit("spo2"), ReSep, ReOptIs, ReNum23(1)>>),
    ReCat(<<ReLit("sp"), ReStar(ReS), ReLit("o"), ReStar(ReS), ReLit("2"),
            ReSep, ReOptIs, ReNum23(1)>>),
    ReCat(<<ReLit("s"), ReStar(ReS), ReLit("p"), ReStar(ReS), ReLit("o"),
            ReStar(ReS), ReLit("2"), ReSep, ReOptIs, ReNum23(1)>>),
    ReCat(<<ReLit("spo"), ReStar(ReS), ReLit("2"), ReSep, ReOptIs, ReNum23(1)>>),
    ReCat(<<ReLit("oxygen"), ReSep, ReSatWord, ReSep, ReOptIs, ReNum23(1)>>),
    ReCat(<<ReLit("oxygen"), RePlus(ReS), ReSatWord, ReSep, ReOptIs, ReNum23(1)>>),
    ReCat(<<ReLit("saturation"), ReSep, ReOptIs, ReNum23(1)>>),
    ReCat(<<ReLit("oxygen"), RePlus(ReS), ReLit("level"), ReSep, ReOptIs, ReNum23(1)>>),
    ReCat(<<ReLit("o2"), ReSep, ReSatWord2, ReSep, ReOptIs, ReNum23(1)>>),
    ReCat(<<ReLit("o"), ReStar(ReS), ReLit("2"), ReSep, ReSatWord2, ReSep,
            ReOptIs, ReNum23(1)>>),
    ReCat(<<ReLit("o2"), ReStar(ReS), ReLit("sat"), ReSep, ReOptIs, ReNum23(1)>>),
    ReCat(<<ReNum23(1), ReStar(ReS), ReOpt(ReLit("%")), ReStar(ReS),
            ReAlt(<<ReLit("oxygen"), ReLit("o2"), ReLit("spo2"), ReLit("saturation")>>)>>),
    ReCat(<<ReNum23(1), ReStar(ReS), ReLit("percent"), ReStar(ReS),
            ReAlt(<<ReLit("oxygen"), ReLit("o2"), ReLit("spo2")>>)>>),
    ReCat(<<ReNum23(1), ReStar(ReS), ReLit("%"), ReStar(ReS),
            ReAlt(<<ReLit("oxygen"), ReLit("o2"), ReLit("spo2")>>)>>),
    ReCat(<<ReLit("oxygen"), ReSep, ReOptIs, ReNum23(1)>>),
    ReCat(<<ReLit("o2"), ReSep, ReOptIs, ReNum23(1)>>) >>

weight_patterns == <<
    ReCat(<<ReLit("weight"), ReSep, ReWeightNum, ReStar(ReS), ReKg>>),
    ReCat(<<ReWeightNum, ReStar(ReS), ReKg>>),
    ReCat(<<ReLit("weight"), ReSep, ReWeightNum>>) >>

\* Python values: None, str
None == [t |-> "null"]

Str(s) == [t |-> "str", s |-> s]

\* a record that lacks the weight field
NoVitalsButWeight == [bp |-> None, temp |-> None, pulse |-> None, spo2 |-> None]

\* the record of five vitals, all None: out as _normalize_vitals creates it
NoVitals == [bp |-> None, temp |-> None, pulse |-> None, spo2 |-> None, weight |-> None]

VitalKeys == <<"bp", "temp", "pulse", "spo2", "weight">>

\* a range test that accepts every value
SpO2Unchecked(m) == TRUE

\* 70 <= int(match.group(1)) <= 100
SpO2InRange(m) == 70 <= StrToNat(m.g[1], 0) /\ StrToNat(m.g[1], 0) <= 100

RECURSIVE FirstMatch(_, _, _, _)
\* the later match when there is one, else the match m when it is taken
LaterOr(later, m, taken) ==
    IF later.found THEN later
    ELSE IF taken THEN m
    ELSE [found |-> FALSE, start |-> 0, end |-> 0, g |-> NoCaps]

\* a loop without break: a later pattern that matches replaces the match
TakeLater(patterns, text, k, ranged, m) ==
    LaterOr(FirstMatch(patterns, text, k + 1, ranged), m,
            m.found /\ (ranged => 70 <= StrToNat(m.g[1], 0) /\ StrToNat(m.g[1], 0) <= 100))

\* the match of the loop "for pattern in patterns: match = re.search(...);
\* if match: take it; break", given the match m of pattern k: ranged adds
\* the spo2 loop's range test, after which the loop goes on to pattern k + 1
TakeOrNext(patterns, text, k, ranged, m) ==
    IF m.found /\ (ranged => SpO2InRange(m)) THEN m
    ELSE FirstMatch(patterns, text, k + 1, ranged)

\* the match the loop ends with, from pattern k on; found is FALSE when no
\* pattern is taken
FirstMatch(patterns, text, k, ranged) ==
    IF k > Len(patterns) THEN [found |-> FALSE, start |-> 0, end |-> 0, g |-> NoCaps]
    ELSE TakeOrNext(patterns, text, k, ranged, ReSearch(patterns[k], text))

\* vitals["bp"] = f"{match.group(1)}/{match.group(2)}"
BpValue(m) == IF m.found THEN Str(m.g[1] \o "/" \o m.g[2]) ELSE None

\* vitals[field] = match.group(1)
Group1Value(m) == IF m.found THEN Str(m.g[1]) ELSE None

\* the five pattern loops on the lower-cased text
VitalsOfLower(text_lower) ==
    [bp     |-> BpValue(FirstMatch(bp_patterns, text_lower, 1, FALSE)),
     temp   |-> Group1Value(FirstMatch(temp_patterns, text_lower, 1, FALSE)),
     pulse  |-> Group1Value(FirstMatch(pulse_patterns, text_lower, 1, FALSE)),
     spo2   |-> Group1Value(FirstMatch(spo2_patterns, text_lower, 1, TRUE)),
     weight |-> Group1Value(FirstMatch(weight_patterns, text_lower, 1, FALSE))]

extract_vitals_regex(text) == VitalsOfLower(Lower(text))

(***************************************************************************)
(* Python json: json.loads as a recursive-descent parser over the text,    *)
(* and json.dumps / str() for the values the normalizer serializes.  A     *)
(* parse step yields [ok, v, p]: success, the value, the position after    *)
(* it.  A number is m * 10^(-e); int tells a Python int from a float and   *)
(* neg is the sign, which a float keeps when its value is zero (-0.0).     *)
(* Outside the modelled alphabet: the escapes \b \f \uXXXX, the literals   *)
(* NaN and Infinity, floats whose repr uses an exponent.                    *)
(***************************************************************************)

Bool(b) == [t |-> "bool", b |-> b]

IntNum(n) == [t |-> "num", int |-> TRUE, m |-> n, e |-> 0, neg |-> n < 0]

Arr(items) == [t |-> "arr", items |-> items]

Obj(keys, vals) == [t |-> "obj", keys |-> keys, vals |-> vals]

EmptyDict == Obj(<< >>, << >>)

ParseFail == [ok |-> FALSE, v |-> None, p |-> 0]

ParseOk(v, p) == [ok |-> TRUE, v |-> v, p |-> p]

RECURSIVE SkipWs(_, _)
\* json.decoder.WHITESPACE.match(s, i).end()
SkipWs(s, i) == IF i <= Len(s) /\ At(s, i) \in Whitespace THEN SkipWs(s, i + 1) ELSE i

RECURSIVE DigitsEnd(_, _)
\* the position after the run of digits starting at i
DigitsEnd(s, i) == IF i <= Len(s) /\ At(s, i) \in Digits THEN DigitsEnd(s, i + 1) ELSE i

RECURSIVE StripZeros(_, _)
\* drop trailing zeros of the fraction, keeping one fractional digit
StripZeros(m, e) == IF e > 1 /\ m % 10 = 0 THEN StripZeros(m \div 10, e - 1)
                    ELSE [m |-> m, e |-> e]

\* the float with value mant * 10^(-scale), in the form repr() prints
FloatNum(mant, scale) ==
    LET n == IF scale <= 0 THEN StripZeros(mant * Pow10(1 - scale), 1)
             ELSE StripZeros(mant, scale)
    IN  [t |-> "num", int |-> FALSE, m |-> n.m, e |-> n.e, neg |-> mant < 0]

\* the float with sign sign and magnitude mant * 10^(-scale), mant >= 0: the
\* sign is kept when the magnitude is zero
SignedFloat(sign, mant, scale) ==
    [FloatNum(sign * mant, scale) EXCEPT !.neg = sign < 0]

\* the exponent part [eE][-+]?\d+ at f, as [end, exp]; end = f when absent
ExponentAt(s, f, signed) ==
    IF f <= Len(s) /\ At(s, f) \in {"e", "E"}
       /\ f + signed + 1 <= Len(s) /\ At(s, f + signed + 1) \in Digits
    THEN [end |-> DigitsEnd(s, f + signed + 1),
          exp |-> (IF signed = 1 /\ At(s, f + 1) = "-" THEN -1 ELSE 1)
                  * StrToNat(SubSeq(s, f + signed + 1,
                                    DigitsEnd(s, f + signed + 1) - 1), 0)]
    ELSE [end |-> f, exp |-> 0]

\* the number with sign, integer digits s[i0..iEnd-1], fraction digits
\* s[iEnd+1..fEnd-1] (none when fEnd = iEnd) and exponent part x
NumberValue(s, sign, i0, iEnd, fEnd, x) ==
    IF fEnd = iEnd /\ x.end = fEnd
    THEN ParseOk(IntNum(sign * StrToNat(SubSeq(s, i0, iEnd - 1), 0)), iEnd)
    ELSE ParseOk(SignedFloat(sign, StrToNat(SubSeq(s, i0, iEnd - 1)
                                            \o SubSeq(s, iEnd + 1, fEnd - 1), 0),
                             (IF fEnd = iEnd THEN 0 ELSE fEnd - iEnd - 1) - x.exp),
                 x.end)

\* the fraction part (\.\d+)? at iEnd, then the exponent part
NumberTail(s, sign, i0, iEnd, fEnd) ==
    NumberValue(s, sign, i0, iEnd, fEnd,
                ExponentAt(s, fEnd,
                           IF fEnd + 1 <= Len(s) /\ At(s, fEnd + 1) \in {"+", "-"}
                           THEN 1 ELSE 0))

\* the integer part (0|[1-9]\d*) at i0, then the rest
NumberFrom(s, sign, i0, iEnd) ==
    IF iEnd = i0 THEN ParseFail
    ELSE NumberTail(s, sign, i0, iEnd,
                    IF iEnd + 1 <= Len(s) /\ At(s, iEnd) = "."
                       /\ At(s, iEnd + 1) \in Digits
                    THEN DigitsEnd(s, iEnd + 1) ELSE iEnd)

\* the position after the integer part starting at i0
IntPartEnd(s, i0) ==
    IF i0 <= Len(s) /\ At(s, i0) = "0" THEN i0 + 1 ELSE DigitsEnd(s, i0)

\* json.scanner NUMBER_RE (-?(?:0|[1-9]\d*))(\.\d+)?([eE][-+]?\d+)? at i
ParseNumber(s, i) ==
    IF i <= Len(s) /\ At(s, i) = "-"
    THEN NumberFrom(s, -1, i + 1, IntPartEnd(s, i + 1))
    ELSE NumberFrom(s, 1, i, IntPartEnd(s, i))

\* the character an escape \c stands for, "" when the escape is rejected
Unescape(c) == CASE c = "\"" -> "\""
                 [] c = "\\" -> "\\"
                 [] c = "/"  -> "/"
                 [] c = "n"  -> "\n"
                 [] c = "r"  -> "\r"
                 [] c = "t"  -> "\t"
                 [] OTHER    -> ""

RECURSIVE ScanString(_, _, _)
\* json.decoder.scanstring (strict): i is the position after the opening
\* quote, acc the characters read so far
ScanString(s, i, acc) ==
    IF i > Len(s) THEN ParseFail
    ELSE CASE At(s, i) = "\"" -> ParseOk(Str(acc), i + 1)
           [] At(s, i) = "\\" -> IF i + 1 > Len(s) \/ Unescape(At(s, i + 1)) = ""
                                 THEN ParseFail
                                 ELSE ScanString(s, i + 2, acc \o Unescape(At(s, i + 1)))
           [] At(s, i) \in {"\n", "\t", "\r"} -> ParseFail
           [] OTHER -> ScanString(s, i + 1, acc \o At(s, i))

\* dict[key] = val: a repeated key keeps its place and takes the new value
DictSet(keys, vals, key, val) ==
    IF \E k \in 1..Len(keys) : keys[k] = key
    THEN [keys |-> keys,
          vals |-> [k \in 1..Len(vals) |-> IF keys[k] = key THEN val ELSE vals[k]]]
    ELSE [keys |-> Append(keys, key), vals |-> Append(vals, val)]

RECURSIVE ParseValue(_, _)
RECURSIVE ParseItems(_, _, _)
RECURSIVE ParseMembers(_, _, _, _)
RECURSIVE AfterItem(_, _, _, _)
RECURSIVE AfterMember(_, _, _, _)

\* after the array item r: "]" ends the array, "," leads to the next item
AfterItem(s, items, r, j) ==
    IF ~r.ok \/ j > Len(s) THEN ParseFail
    ELSE IF At(s, j) = "]" THEN ParseOk(Arr(Append(items, r.v)), j + 1)
    ELSE IF At(s, j) = "," THEN ParseItems(s, SkipWs(s, j + 1), Append(items, r.v))
    ELSE ParseFail

\* the whitespace after the parsed value r is skipped
ItemParsed(s, items, r) == AfterItem(s, items, r, IF r.ok THEN SkipWs(s, r.p) ELSE 0)

\* json.decoder.JSONArray after "[" and whitespace: i is at the next value
ParseItems(s, i, items) == ItemParsed(s, items, ParseValue(s, i))

\* after the member with value r: "}" ends the object, "," leads to the next key
AfterMember(s, d, r, j) ==
    IF ~r.ok \/ j > Len(s) THEN ParseFail
    ELSE IF At(s, j) = "}" THEN ParseOk(Obj(d.keys, d.vals), j + 1)
    ELSE IF At(s, j) = "," THEN ParseMembers(s, SkipWs(s, j + 1), d.keys, d.vals)
    ELSE ParseFail

\* the member's value r is stored under the key k
MemberParsed(s, keys, vals, k, r) ==
    IF ~r.ok THEN ParseFail
    ELSE AfterMember(s, DictSet(keys, vals, k.v.s, r.v), r, SkipWs(s, r.p))

\* after the key k: whitespace, ":", whitespace, the value
AfterKey(s, keys, vals, k, c) ==
    IF c > Len(s) \/ At(s, c) # ":" THEN ParseFail
    ELSE MemberParsed(s, keys, vals, k, ParseValue(s, SkipWs(s, c + 1)))

KeyParsed(s, keys, vals, k) ==
    IF ~k.ok THEN ParseFail ELSE AfterKey(s, keys, vals, k, SkipWs(s, k.p))

\* json.decoder.JSONObject: i is at the opening quote of the next key
ParseMembers(s, i, keys, vals) ==
    IF i > Len(s) \/ At(s, i) # "\"" THEN ParseFail
    ELSE KeyParsed(s, keys, vals, ScanString(s, i + 1, ""))

\* json.decoder.JSONObject after "{" and whitespace
ParseObject(s, j) ==
    IF j <= Len(s) /\ At(s, j) = "}" THEN ParseOk(EmptyDict, j + 1)
    ELSE ParseMembers(s, j, << >>, << >>)

\* json.decoder.JSONArray after "[" and whitespace
ParseArray(s, j) ==
    IF j <= Len(s) /\ At(s, j) = "]" THEN ParseOk(Arr(<< >>), j + 1)
    ELSE ParseItems(s, j, << >>)

\* json.scanner.py_make_scanner._scan_once at position i
ParseValue(s, i) ==
    IF i > Len(s) THEN ParseFail
    ELSE CASE At(s, i) = "\"" -> ScanString(s, i + 1, "")
           [] At(s, i) = "{" -> ParseObject(s, SkipWs(s, i + 1))
           [] At(s, i) = "[" -> ParseArray(s, SkipWs(s, i + 1))
           [] OccursAt("null", s, i)  -> ParseOk(None, i + 4)
           [] OccursAt("true", s, i)  -> ParseOk(Bool(TRUE), i + 4)
           [] OccursAt("false", s, i) -> ParseOk(Bool(FALSE), i + 5)
           [] OTHER -> ParseNumber(s, i)

\* the end of json.loads: anything but whitespace after the value is an error
WholeText(s, r) == IF r.ok /\ SkipWs(s, r.p) = Len(s) + 1 THEN r ELSE ParseFail

\* json.loads(s): ok is FALSE where it raises json.JSONDecodeError
json_loads(s) == WholeText(s, ParseValue(s, SkipWs(s, 1)))

RECURSIVE Zeros(_)
\* a string of n zeros
Zeros(n) == IF n <= 0 THEN "" ELSE "0" \o Zeros(n - 1)

\* repr() of the float with sign neg and value m * 10^(-e), e >= 1
FloatToStr(neg, m, e) ==
    LET a  == IF m < 0 THEN 0 - m ELSE m
        fp == NatToStr(a % Pow10(e))
    IN  (IF neg THEN "-" ELSE "") \o NatToStr(a \div Pow10(e)) \o "."
        \o Zeros(e - Len(fp)) \o fp

\* str(v) for a Python int, float or bool
PyStr(v) == CASE v.t = "bool" -> IF v.b THEN "True" ELSE "False"
              [] v.t = "num" /\ v.int -> IntToStr(v.m)
              [] v.t = "num" /\ ~v.int -> FloatToStr(v.neg, v.m, v.e)

RECURSIVE EscapeStr(_)
\* the body of a JSON string literal as json.dumps(ensure_ascii=False) writes it
EscapeStr(s) ==
    IF s = "" THEN ""
    ELSE LET c == At(s, 1)
         IN  (CASE c = "\"" -> "\\\""
                [] c = "\\" -> "\\\\"
                [] c = "\n" -> "\\n"
                [] c = "\r" -> "\\r"
                [] c = "\t" -> "\\t"
                [] OTHER    -> c) \o EscapeStr(SubSeq(s, 2, Len(s)))

RECURSIVE JoinStr(_, _)
\* sep.join(parts)
JoinStr(parts, sep) ==
    IF Len(parts) = 0 THEN ""
    ELSE IF Len(parts) = 1 THEN parts[1]
    ELSE parts[1] \o sep \o JoinStr(Tail(parts), sep)

RECURSIVE json_dumps(_)
\* json.dumps(v, ensure_ascii=False)
json_dumps(v) ==
    CASE v.t = "null" -> "null"
      [] v.t = "bool" -> IF v.b THEN "true" ELSE "false"
      [] v.t = "num"  -> PyStr(v)
      [] v.t = "str"  -> "\"" \o EscapeStr(v.s) \o "\""
      [] v.t = "arr"  -> "[" \o JoinStr([k \in 1..Len(v.items) |-> json_dumps(v.items[k])], ", ") \o "]"
      [] v.t = "obj"  -> "{" \o JoinStr([k \in 1..Len(v.keys) |->
                                           "\"" \o EscapeStr(v.keys[k]) \o "\": "
                                           \o json_dumps(v.vals[k])], ", ") \o "}"

\* bool(v): Python truthiness
Truthy(v) == CASE v.t = "null" -> FALSE
               [] v.t = "bool" -> v.b
               [] v.t = "num"  -> v.m # 0
               [] v.t = "str"  -> v.s # ""
               [] v.t = "arr"  -> Len(v.items) > 0
               [] v.t = "obj"  -> Len(v.keys) > 0

\* key in d, for a dict d
HasKey(d, key) == \E k \in 1..Len(d.keys) : d.keys[k] = key

\* d[key], for a key that d has
Lookup(d, key) == d.vals[CHOOSE k \in 1..Len(d.keys) : d.keys[k] = key]

\* d.get(key, default)
DictGet(d, key, default) == IF HasKey(d, key) THEN Lookup(d, key) ELSE default

(***************************************************************************)
(* _robust_json_extract, _normalize_vitals, extract_vitals_groq_api        *)
(* (backend/main.py).  A call that can raise yields [ok, v]: ok is FALSE   *)
(* where the code raises, v is the returned value otherwise.               *)
(***************************************************************************)

Raised == [ok |-> FALSE, v |-> None]

Returned(v) == [ok |-> TRUE, v |-> v]

\* r"```(?:json)?\s*(\{[\s\S]*?\})\s*```", flags=re.IGNORECASE
FenceRe == ReCat(<<ReLit(Fence), ReOpt(ReLitI("json")), ReStar(ReS),
                   ReGrp(1, ReCat(<<ReLit("{"), ReLazy(ReAny, 0, ReInf), ReLit("}")>>)),
                   ReStar(ReS), ReLit(Fence)>>)

\* r",\s*([}\]])"
TrailingCommaRe == ReCat(<<ReLit(","), ReStar(ReS), ReGrp(1, ReChr({"}", "]"}))>>)

RECURSIVE ReSubGroup1(_, _)
\* the match m of re in s replaced by its group 1, and so on after it
ReplaceMatch(re, s, m) ==
    IF ~m.found THEN s
    ELSE SubSeq(s, 1, m.start - 1) \o m.g[1]
         \o ReSubGroup1(re, SubSeq(s, m.end, Len(s)))

\* re.sub(re, r"\1", s): every match, left to right, replaced by its group 1
ReSubGroup1(re, s) == ReplaceMatch(re, s, ReSearch(re, s))

\* the replace chain of _robust_json_extract: typographic quotes to straight
Sanitize(s) ==
    ReplaceChar(ReplaceChar(ReplaceChar(ReplaceChar(s, LDQuote, "\""),
                                        RDQuote, "\""), LSQuote, "'"), RSQuote, "'")

\* the result of the second json.loads, which raises when it fails
LoadCleaned(second) == IF second.ok THEN Returned(second.v) ELSE Raised

\* the end of _robust_json_extract: json.loads(candidate), and on a
\* JSONDecodeError json.loads of the candidate without trailing commas
LoadCandidate(candidate) ==
    IF json_loads(candidate).ok THEN Returned(json_loads(candidate).v)
    ELSE LoadCleaned(json_loads(ReSubGroup1(TrailingCommaRe, candidate)))

\* text is a str with non-blank content; fence is the search for a fenced block
ExtractCandidate(text, fence, start, end) ==
    IF fence.found THEN LoadCandidate(Sanitize(Strip(fence.g[1])))
    ELSE IF start = 0 \/ end = 0 \/ end <= start THEN Raised
    ELSE LoadCandidate(Sanitize(Strip(SubSeq(text, start, end))))

\* text is a Python value: a str or None (a completion without content)
_robust_json_extract(text) ==
    IF ~Truthy(text) THEN Raised
    ELSE IF Strip(text.s) = "" THEN Raised
    ELSE ExtractCandidate(text.s, ReSearch(FenceRe, text.s),
                          Find(text.s, "{"), RFind(text.s, "}"))

RECURSIVE pickLast(_, _)
\* the last key of keys that obj has with a value not in (None, "")
pickLast(obj, keys) ==
    IF Len(keys) = 0 THEN None
    ELSE IF HasKey(obj, keys[Len(keys)]) /\ Lookup(obj, keys[Len(keys)]) # None
            /\ Lookup(obj, keys[Len(keys)]) # Str("")
         THEN Lookup(obj, keys[Len(keys)])
         ELSE pickLast(obj, SubSeq(keys, 1, Len(keys) - 1))

RECURSIVE pick(_, _)
\* the first key of keys that obj has with a value not in (None, "")
pick(obj, keys) ==
    IF Len(keys) = 0 THEN None
    ELSE IF HasKey(obj, Head(keys)) /\ Lookup(obj, Head(keys)) # None
            /\ Lookup(obj, Head(keys)) # Str("")
         THEN Lookup(obj, Head(keys))
         ELSE pick(obj, Tail(keys))

\* a coercion that leaves arrays and objects as they are
CoerceScalars(v) == CASE v.t = "null" -> None
                      [] v.t \in {"num", "bool"} -> Str(PyStr(v))
                      [] v.t = "str" -> Str(Strip(v.s))
                      [] OTHER -> v

\* the loop of _normalize_vitals that coerces a picked value to a string
Coerce(v) == CASE v.t = "null" -> None
               [] v.t \in {"num", "bool"} -> Str(PyStr(v))
               [] v.t = "str" -> Str(Strip(v.s))
               [] OTHER -> Str(json_dumps(v))

_normalize_vitals(obj) ==
    IF obj.t # "obj" THEN NoVitals
    ELSE [bp     |-> Coerce(pick(obj, <<"bp", "blood_pressure", "bloodPressure">>)),
          temp   |-> Coerce(pick(obj, <<"temp", "temperature">>)),
          pulse  |-> Coerce(pick(obj, <<"pulse", "hr", "heart_rate", "heartRate">>)),
          spo2   |-> Coerce(pick(obj, <<"spo2", "SpO2", "o2sat", "oxygen_saturation",
                                        "oxygenSaturation">>)),
          weight |-> Coerce(pick(obj, <<"weight", "wt", "body_weight", "bodyWeight">>))]

(***************************************************************************)
(* The completion service (requests.post to the Groq API), as the callers  *)
(* see it.  A response is [kind, content]:                                 *)
(*   "ok"        status 200, the completion text is content (a str, or     *)
(*               None when the message carries no content)                 *)
(*   "status"    a status other than 200                                   *)
(*   "timeout"   requests.exceptions.Timeout                               *)
(*   "exception" any other exception of the call or of decoding its body   *)
(***************************************************************************)

OkResponse(text) == [kind |-> "ok", content |-> Str(text)]

EmptyContent == [kind |-> "ok", content |-> None]

ErrorStatus == [kind |-> "status", content |-> None]

Timeout == [kind |-> "timeout", content |-> None]

OtherException == [kind |-> "exception", content |-> None]

\* only the first except clause: requests.exceptions.Timeout
HandledTimeoutOnly == {"Timeout"}

\* the exception classes of the except clauses that end extract_vitals_groq_api
\* and _get_groq_diagnosis: Timeout first, then Exception
Handled == {"Timeout", "Exception"}

\* an exception of class cls raised inside the try block is caught
Caught(cls) == cls = "Timeout" \/ "Exception" \in Handled

\* the return of _robust_json_extract's value, and the except clause for the
\* ValueError it raises
ExtractedOrCaught(r) ==
    IF r.ok THEN r
    ELSE IF Caught("ValueError") THEN Returned(EmptyDict) ELSE Raised

\* extract_vitals_groq_api with the service answering resp; key is
\* bool(GROQ_API_KEY).  ok is FALSE when an exception escapes the function.
extract_vitals_groq_api(key, resp) ==
    IF ~key THEN Returned(EmptyDict)
    ELSE CASE resp.kind = "ok" -> ExtractedOrCaught(_robust_json_extract(resp.content))
           [] resp.kind = "status" -> Returned(EmptyDict)
           [] resp.kind = "timeout" ->
                IF Caught("Timeout") THEN Returned(EmptyDict) ELSE Raised
           [] resp.kind = "exception" ->
                IF Caught("RuntimeError") THEN Returned(EmptyDict) ELSE Raised

(***************************************************************************)
(* Inputs of the vitals flow                                               *)
(***************************************************************************)

\* most phrases a transcript is made of
MaxPhrases == 2

\* most members of the JSON object in a completion
MaxMembers == 2

Increasing(q) == \A k \in 1..(Len(q) - 1) : q[k] < q[k + 1]

\* the selections of at most max of the indices 1..n, in increasing order
Selections(n, max) ==
    {q \in UNION {[1..k -> 1..n] : k \in 0..max} : Increasing(q)}

PhrasePool == << "BP is 140 over 90", "bp 120/80", "pulse 75", "spo2 of 45", "97% oxygen" >>

\* a transcript from which the regex extractor reads all five vitals
FullTranscript == "bp 120/80 hr 75 temp 37 o2 98 weight 70"

\* the transcripts: up to MaxPhrases phrases, joined by ", ", and the full one
Transcripts ==
    {JoinStr([k \in 1..Len(q) |-> PhrasePool[q[k]]], ", ") :
        q \in Selections(Len(PhrasePool), MaxPhrases)}
    \cup {FullTranscript}

MemberPool == << "\"bp\": null", "\"pulse\": \"80\"", "\"temp\": \"  \"",
                 "\"heart_rate\": 88", "\"bp\": \"110/70\"" >>

\* the JSON objects a completion carries: up to MaxMembers members
ObjectTexts ==
    {"{" \o JoinStr([k \in 1..Len(q) |-> MemberPool[q[k]]], ", ") \o "}" :
        q \in Selections(Len(MemberPool), MaxMembers)}

\* completions that are not a bare JSON object: empty, prose without JSON,
\* a fenced object, an object inside prose, a trailing comma, a truncated
\* object, an object whose only value is not a scalar, an object with an
\* spo2 below 70
OtherTexts ==
    { "", "I could not find any vitals.",
      Fence \o "json\n{\"pulse\": \"80\"}\n" \o Fence,
      "Here are the vitals: {\"bp\": \"110/70\"} as requested",
      "{\"pulse\": \"80\",}",
      "{\"pulse\": \"80\"",
      "{\"weight\": [70]}",
      "{\"spo2\": \"45\"}" }

\* every behaviour of the completion service in the vitals flow
VitalsResponses ==
    {OkResponse(text) : text \in ObjectTexts \cup OtherTexts}
    \cup {EmptyContent, ErrorStatus, Timeout, OtherException}

\* no call was made
NoResponse == [kind |-> "none", content |-> None]

(***************************************************************************)
(* _get_groq_diagnosis, diagnose, confirm_diagnosis (backend/main.py)      *)
(***************************************************************************)

\* r'\[[\s\S]*?\]'
ArrayRe == ReCat(<<ReLit("["), ReLazy(ReAny, 0, ReInf), ReLit("]")>>)

\* r'\{[\s\S]*?\}'
ObjectRe == ReCat(<<ReLit("{"), ReLazy(ReAny, 0, ReInf), ReLit("}")>>)

\* match.group(0)
MatchText(s, m) == SubSeq(s, m.start, m.end - 1)

EmptyList == Arr(<< >>)

\* if key not in d: d[key] = val
SetDefault(d, key, val) ==
    IF HasKey(d, key) THEN d
    ELSE Obj(DictSet(d.keys, d.vals, key, val).keys, DictSet(d.keys, d.vals, key, val).vals)

\* the defaults of probability, reasoning and detailed_reasoning, in the
\* source's order: each default reads the dict the earlier ones left
RestDefaults(d) ==
    SetDefault(
        SetDefault(SetDefault(d, "probability", FloatNum(7, 1)),
                   "reasoning",
                   DictGet(d, "detailed_reasoning", Str("Based on symptom analysis."))),
        "detailed_reasoning",
        DictGet(SetDefault(d, "reasoning",
                           DictGet(d, "detailed_reasoning",
                                   Str("Based on symptom analysis."))),
                "reasoning", Str("")))

\* the body of "for diag in diagnoses": diagnosis defaults to the condition
FillDefaults(diag) ==
    RestDefaults(SetDefault(diag, "diagnosis", DictGet(diag, "condition", Str(""))))

\* no item is dropped
KeepsEveryItem(d) == TRUE

\* d.get("diagnosis") is truthy
HasDiagnosis(d) == Truthy(DictGet(d, "diagnosis", None))

\* the non-empty list the array pattern gave: an item that is no dict raises
\* TypeError or AttributeError, which the last except clause turns into [];
\* otherwise the items with their defaults, those without a diagnosis dropped
ListDiagnoses(items) ==
    IF \E k \in 1..Len(items) : items[k].t # "obj"
    THEN IF Caught("TypeError") THEN Returned(EmptyList) ELSE Raised
    ELSE Returned(Arr(SelectSeq([k \in 1..Len(items) |-> FillDefaults(items[k])],
                                HasDiagnosis)))

\* the single-object fallback after json.loads gave r
ObjectParsed(r) ==
    IF ~r.ok THEN Returned(EmptyList)
    ELSE IF r.v.t = "obj" /\ HasDiagnosis(r.v)
         THEN Returned(Arr(<< RestDefaults(r.v) >>))
         ELSE Returned(EmptyList)

\* the single-object fallback, m the match of the object pattern
ObjectFallback(text, m) ==
    IF ~m.found THEN Returned(EmptyList)
    ELSE ObjectParsed(json_loads(MatchText(text, m)))

\* after json.loads of the array match gave r: a JSONDecodeError ends in
\* "return []", an empty list leads to the single-object fallback
ArrayParsed(text, r) ==
    IF ~r.ok THEN Returned(EmptyList)
    ELSE IF r.v.t = "arr" /\ Len(r.v.items) > 0
         THEN ListDiagnoses(r.v.items)
         ELSE ObjectFallback(text, ReSearch(ObjectRe, text))

\* the extraction from generated_text, m the match of the array pattern
ArrayMatched(text, m) ==
    IF m.found THEN ArrayParsed(text, json_loads(MatchText(text, m)))
    ELSE ObjectFallback(text, ReSearch(ObjectRe, text))

\* status 200: len(generated_text) raises TypeError for a null content
GeneratedText(content) ==
    IF content.t # "str"
    THEN IF Caught("TypeError") THEN Returned(EmptyList) ELSE Raised
    ELSE ArrayMatched(content.s, ReSearch(ArrayRe, content.s))

\* _get_groq_diagnosis with the service answering resp; key is
\* bool(GROQ_API_KEY).  One call of the service, no second one.
_get_groq_diagnosis(key, resp) ==
    IF ~key THEN Returned(EmptyList)
    ELSE CASE resp.kind = "ok" -> GeneratedText(resp.content)
           [] resp.kind = "status" -> Returned(EmptyList)
           [] resp.kind = "timeout" ->
                IF Caught("Timeout") THEN Returned(EmptyList) ELSE Raised
           [] resp.kind = "exception" ->
                IF Caught("RuntimeError") THEN Returned(EmptyList) ELSE Raised

\* raw.get("condition") or raw.get("diagnosis", "")
Condition(raw) ==
    IF Truthy(DictGet(raw, "condition", None)) THEN DictGet(raw, "condition", None)
    ELSE DictGet(raw, "diagnosis", Str(""))

\* the four fields with the condition read from "condition" alone, "" when
\* the key is absent
ItemFieldsDefaulted(raw) ==
    Obj(<<"condition", "probability", "reasoning", "detailed_reasoning">>,
        << DictGet(raw, "condition", Str("")),
           DictGet(raw, "probability", FloatNum(5, 1)),
           DictGet(raw, "reasoning", Str("")),
           DictGet(raw, "detailed_reasoning", None) >>)

\* the four fields both handlers build for a raw item
ItemFields(raw) ==
    Obj(<<"condition", "probability", "reasoning", "detailed_reasoning">>,
        << Condition(raw),
           DictGet(raw, "probability", FloatNum(5, 1)),
           DictGet(raw, "reasoning", Str("")),
           DictGet(raw, "detailed_reasoning", None) >>)

\* the loop of both handlers: items without a condition are skipped
ConvertItems(raws) ==
    [k \in 1..Len(SelectSeq(raws, LAMBDA raw : Truthy(Condition(raw)))) |->
        ItemFields(SelectSeq(raws, LAMBDA raw : Truthy(Condition(raw)))[k])]

\* float(v) for a number v
ToFloat(v) == IF v.int THEN FloatNum(v.m, 0) ELSE v

\* the position after an optional sign at the start of s
AfterSign(s) == IF s # "" /\ At(s, 1) \in {"+", "-"} THEN 2 ELSE 1

\* the float of the literal s with integer digits s[i0..iEnd-1], fraction
\* digits s[iEnd+1..fEnd-1] and exponent part x: there is a digit before
\* the exponent, and nothing after the literal
FloatLiteral(s, i0, iEnd, fEnd, x) ==
    IF fEnd - i0 = (IF fEnd > iEnd THEN 1 ELSE 0) \/ x.end # Len(s) + 1 THEN Raised
    ELSE Returned(SignedFloat(IF At(s, 1) = "-" THEN -1 ELSE 1,
                              StrToNat(SubSeq(s, i0, iEnd - 1)
                                       \o SubSeq(s, iEnd + 1, fEnd - 1), 0),
                              (IF fEnd > iEnd THEN fEnd - iEnd - 1 ELSE 0) - x.exp))

\* the fraction part \.\d* at iEnd, then the exponent part
FloatFraction(s, i0, iEnd, fEnd) ==
    FloatLiteral(s, i0, iEnd, fEnd,
                 ExponentAt(s, fEnd,
                            IF fEnd + 1 <= Len(s) /\ At(s, fEnd + 1) \in {"+", "-"}
                            THEN 1 ELSE 0))

\* the integer part \d* at i0, then the rest
FloatDigits(s, i0, iEnd) ==
    FloatFraction(s, i0, iEnd,
                  IF iEnd <= Len(s) /\ At(s, iEnd) = "." THEN DigitsEnd(s, iEnd + 1)
                  ELSE iEnd)

\* the float a decimal literal spells, [+-]?(\d+\.?\d*|\.\d+)([eE][+-]?\d+)?
\* being the whole of s.  Outside the modelled alphabet: the spellings of
\* infinity and NaN
ParseFloat(s) == FloatDigits(s, AfterSign(s), DigitsEnd(s, AfterSign(s)))

\* s has underscores, none at either end and no two in a row
Underscored(s) ==
    /\ Contains("_", s)
    /\ At(s, 1) # "_" /\ At(s, Len(s)) # "_"
    /\ ~Contains("__", s)

\* float validation of a str: the text trimmed is a decimal literal, or
\* the text without its underscores is
str_as_float(s) ==
    IF ParseFloat(Strip(s)).ok THEN ParseFloat(Strip(s))
    ELSE IF Underscored(s) THEN ParseFloat(ReplaceChar(s, "_", ""))
    ELSE Raised

\* the field probability: float of DiagnosisItem, for the value v given: a
\* number or a bool becomes a float, a str is parsed, anything else is a
\* validation error
FloatField(v) == CASE v.t = "num"  -> Returned(ToFloat(v))
                   [] v.t = "bool" -> Returned(FloatNum(IF v.b THEN 1 ELSE 0, 0))
                   [] v.t = "str"  -> str_as_float(v.s)
                   [] OTHER        -> Raised

\* the field types of DiagnosisItem: condition: str, probability: float,
\* reasoning: str, detailed_reasoning: Optional[str]
ValidItem(item) ==
    /\ Lookup(item, "condition").t = "str"
    /\ FloatField(Lookup(item, "probability")).ok
    /\ Lookup(item, "reasoning").t = "str"
    /\ Lookup(item, "detailed_reasoning").t \in {"null", "str"}

\* DiagnosisItem(...) for valid fields: the probability becomes a float
DiagnosisItem(item) ==
    Obj(item.keys, [k \in 1..Len(item.vals) |->
                       IF item.keys[k] = "probability" THEN FloatField(item.vals[k]).v
                       ELSE item.vals[k]])

\* the outcome of a request: HTTP status and, for 200, the diagnosis list
Response(status, list) == [status |-> status, list |-> list]

\* the end of diagnose: DiagnosisResponse(diagnoses=items); a field of the
\* wrong type raises a validation error, which ends the request with 500
DiagnoseItems(items) ==
    IF \A k \in 1..Len(items) : ValidItem(items[k])
    THEN Response(200, [k \in 1..Len(items) |-> DiagnosisItem(items[k])])
    ELSE Response(500, << >>)

\* the end of confirm_diagnosis: final_diagnosis is a list of plain dicts
ConfirmItems(items) == Response(200, items)

\* both handlers after _get_groq_diagnosis returned r: an empty list is
\* HTTPException(500), an exception leaving the call is a 500 as well
AfterGroq(endpoint, r) ==
    IF ~r.ok \/ ~Truthy(r.v) THEN Response(500, << >>)
    ELSE IF endpoint = "diagnose" THEN DiagnoseItems(ConvertItems(r.v.items))
    ELSE ConfirmItems(ConvertItems(r.v.items))

(***************************************************************************)
(* Inputs of the diagnosis flow                                            *)
(***************************************************************************)

\* most items of the JSON array in a completion
MaxItems == 4

ItemPool ==
    << "{\"condition\": \"Flu\", \"probability\": 0.8, \"reasoning\": \"cough\"}",
       "{\"diagnosis\": \"Malaria\", \"probability\": 85}",
       "{\"condition\": \"Cold\", \"probability\": 1.5}",
       "{\"probability\": 0.3}",
       "{\"condition\": \"Typhoid\"}",
       "{\"condition\": \"Gout\", \"reasoning\": null}" >>

\* the JSON arrays a completion carries: up to MaxItems items
ArrayTexts ==
    {"[" \o JoinStr([k \in 1..Len(q) |-> ItemPool[q[k]]], ", ") \o "]" :
        q \in Selections(Len(ItemPool), MaxItems)}

\* completions that are not a bare JSON array of objects: empty, prose, a
\* single object with and without a diagnosis, a fenced array, a trailing
\* comma, an array of numbers, a truncated array, an empty array before an
\* object; arrays with items whose condition or diagnosis is empty, blank or
\* null; arrays with items whose probability is a numeric string, a bool, a
\* string that is no number, a negative zero, null
OtherDiagTexts ==
    { "", "No diagnosis is possible.",
      "{\"diagnosis\": \"Malaria\", \"probability\": 0.9}",
      "{\"condition\": \"Flu\"}",
      Fence \o "json\n[{\"condition\": \"Flu\"}]\n" \o Fence,
      "[{\"condition\": \"Flu\"},]",
      "[1, 2]",
      "[{\"condition\": \"Flu\"}",
      "[] {\"diagnosis\": \"Flu\"}",
      "[{\"condition\": \"\"}, {\"condition\": \"Flu\"}]",
      "[{\"condition\": \"\", \"diagnosis\": \"  \"}]",
      "[{\"condition\": null, \"diagnosis\": \"Malaria\"}, {\"diagnosis\": \"\"}]",
      "[{\"condition\": \"Flu\", \"diagnosis\": \"\"}]",
      "[{\"condition\": \"Flu\", \"probability\": \"0.8\", \"reasoning\": \"cough\"}]",
      "[{\"condition\": \"Flu\", \"probability\": 0.8}, {\"condition\": \"Cold\", \"probability\": true}]",
      "[{\"condition\": \"Flu\", \"probability\": \" 85 \"}]",
      "[{\"condition\": \"Flu\", \"probability\": \"high\"}]",
      "[{\"condition\": \"Flu\", \"probability\": -0.0}]",
      "[{\"condition\": \"Flu\", \"probability\": null}]" }

\* every behaviour of the completion service in the diagnosis flow
DiagResponses ==
    {OkResponse(text) : text \in ArrayTexts \cup OtherDiagTexts}
    \cup {EmptyContent, ErrorStatus, Timeout, OtherException}

\* the symptoms of a request
Symptoms == {"", "  ", "fever"}

Endpoints == {"diagnose", "confirm_diagnosis"}

(***************************************************************************)
(* PrescriptionEngine (prescription_module/engine.py) and                  *)
(* get_ghana_suggestions (prescription_module/interface.py)                *)
(***************************************************************************)

\* the catalog file db_schema.json: absent, or holding a JSON document doc,
\* or text that json.load rejects
NoFile == [exists |-> FALSE, json |-> FALSE, doc |-> None]

BadFile == [exists |-> TRUE, json |-> FALSE, doc |-> None]

FileOf(doc) == [exists |-> TRUE, json |-> TRUE, doc |-> doc]

\* PrescriptionEngine.__init__: FileNotFoundError for a missing file,
\* JSONDecodeError from json.load, ValueError for a document that is no list;
\* otherwise the engine, holding the document as its database
PrescriptionEngine(file) ==
    IF ~file.exists \/ ~file.json \/ file.doc.t # "arr" THEN Raised
    ELSE Returned([database |-> file.doc])

\* the tag lower-cased but not trimmed
TagMatchesNoStrip(tag, diagnosis_lower) ==
    tag.t = "str" /\ Contains(Lower(tag.s), diagnosis_lower)

\* isinstance(tag, str) and tag.lower().strip() in diagnosis_lower
TagMatches(tag, diagnosis_lower) ==
    tag.t = "str" /\ Contains(Strip(Lower(tag.s)), diagnosis_lower)

\* the inner loop over drug.get("indications_tags", []): tags that is no list
\* is skipped, the first matching tag adds the drug
TagsMatch(tags, diagnosis_lower) ==
    tags.t = "arr" /\ \E k \in 1..Len(tags.items) : TagMatches(tags.items[k], diagnosis_lower)

DrugMatches(drug, diagnosis_lower) ==
    TagsMatch(DictGet(drug, "indications_tags", EmptyList), diagnosis_lower)

\* nhis_priority.get(level, 999) with nhis_priority = {"A": 1, "B": 2, "C": 3}
nhis_priority(level) == CASE level = "A" -> 1
                          [] level = "B" -> 2
                          [] level = "C" -> 3
                          [] OTHER -> 999

\* get_nhis_priority(drug): drug.get("nhis_level", "").upper() looked up
get_nhis_priority(drug) == nhis_priority(Upper(DictGet(drug, "nhis_level", Str("")).s))

\* the values get_nhis_priority takes, ascending
Priorities == << 1, 2, 3, 999 >>

\* matches left as collected
Unsorted(matches) == matches

\* matches.sort(key=get_nhis_priority): list.sort is stable, so the result
\* is, priority by priority, the matches of that priority in their order
SortByPriority(matches) ==
    FlatSeq([k \in 1..Len(Priorities) |->
               SelectSeq(matches, LAMBDA drug : get_nhis_priority(drug) = Priorities[k])])

\* iter(v) is defined: a JSON number, null, true or false has no iterator
Iterable(v) == v.t \in {"str", "arr", "obj"}

\* len(v) is defined, for a JSON document v
Sized(v) == v.t \in {"str", "arr", "obj"}

\* what "for drug in self.database" runs over: the items of a list, the
\* keys of a dict and the characters of a str (a database that
\* reload_database took from a JSON object or string)
Entries(database) ==
    CASE database.t = "arr" -> database.items
      [] database.t = "obj" -> [k \in 1..Len(database.keys) |-> Str(database.keys[k])]
      [] database.t = "str" -> [k \in 1..Len(database.s) |-> Str(At(database.s, k))]
      [] OTHER -> << >>

\* "for drug in self.database" with drug.get(...) in its body raises:
\* TypeError for a database without iterator, AttributeError at an entry
\* that is no dict
LoopRaises(database) ==
    ~Iterable(database)
    \/ \E k \in 1..Len(Entries(database)) : Entries(database)[k].t # "obj"

\* matches.sort(key=get_nhis_priority) raises: the nhis_level of a match has
\* no upper()
SortRaises(matches) ==
    \E k \in 1..Len(matches) : DictGet(matches[k], "nhis_level", Str("")).t # "str"

\* the matching loop and the sort, for a diagnosis that is not blank and a
\* database the loop runs through
MatchAndSort(database, diagnosis_lower) ==
    IF diagnosis_lower = "" THEN << >>
    ELSE SortByPriority(SelectSeq(Entries(database),
                                  LAMBDA drug : DrugMatches(drug, diagnosis_lower)))

\* the loop and the sort as a call: Raised where either raises
MatchedOrRaised(database, diagnosis_lower) ==
    IF diagnosis_lower = "" THEN Returned(<< >>)
    ELSE IF LoopRaises(database) THEN Raised
    ELSE IF SortRaises(SelectSeq(Entries(database),
                                 LAMBDA drug : DrugMatches(drug, diagnosis_lower)))
    THEN Raised
    ELSE Returned(MatchAndSort(database, diagnosis_lower))

\* PrescriptionEngine.find_drugs_for(diagnosis), diagnosis any value: the
\* list returned, or Raised
find_drugs_for(database, diagnosis) ==
    IF ~Truthy(diagnosis) \/ diagnosis.t # "str" THEN Returned(<< >>)
    ELSE MatchedOrRaised(database, Strip(Lower(diagnosis.s)))

\* drug.get("id") == drug_id, for an entry that is a dict
HasId(entry, id) == entry.t = "obj" /\ DictGet(entry, "id", None) = id

\* a copy of the first entry whose id is drug_id, None when there is none
FirstWithId(entries, id) ==
    IF \E k \in 1..Len(entries) : HasId(entries[k], id)
    THEN entries[CHOOSE k \in 1..Len(entries) :
                    /\ HasId(entries[k], id)
                    /\ \A j \in 1..(k - 1) : ~HasId(entries[j], id)]
    ELSE None

\* PrescriptionEngine.get_drug_by_id(drug_id): the loop returns at the first
\* entry with the id; it raises TypeError for a database without iterator
\* and AttributeError at an entry that is no dict, when it gets that far
DrugById(database, id) ==
    IF ~Iterable(database) THEN Raised
    ELSE IF \E k \in 1..Len(Entries(database)) :
                /\ Entries(database)[k].t # "obj"
                /\ \A j \in 1..(k - 1) : ~HasId(Entries(database)[j], id)
    THEN Raised
    ELSE Returned(FirstWithId(Entries(database), id))

\* open(self.db_path) and json.load(f): open raises for a missing file,
\* json.load for text that is no JSON
LoadFile(file) == IF ~file.exists \/ ~file.json THEN Raised ELSE Returned(file.doc)

\* a reload that empties self.database before it reads the file
ReloadEngineClears(engine, file) ==
    IF ~LoadFile(file).ok THEN [ok |-> FALSE, v |-> [database |-> Arr(<< >>)]]
    ELSE [ok |-> Sized(file.doc), v |-> [database |-> file.doc]]

\* PrescriptionEngine.reload_database, v being the engine after the call:
\* an exception of open or json.load comes before the assignment; whatever
\* document json.load gives becomes self.database, and there is no test
\* that it is a list; the print after the assignment takes
\* len(self.database), which raises TypeError for a document without len
ReloadEngine(engine, file) ==
    IF ~LoadFile(file).ok THEN [ok |-> FALSE, v |-> engine]
    ELSE [ok |-> Sized(file.doc), v |-> [database |-> file.doc]]

\* the six fields of a formatted match: drug.get(field) each
MatchFields == << "id", "generic_name", "nhis_level", "formulation", "adult_dosage",
                  "safety_warning" >>

FormatMatch(drug) ==
    Obj(MatchFields, [k \in 1..Len(MatchFields) |-> DictGet(drug, MatchFields[k], None)])

\* the response dict of get_ghana_suggestions
Suggestions(status, diagnosis, matches, count, message) ==
    [status |-> status, diagnosis |-> diagnosis, matches |-> matches, count |-> count,
     message |-> message]

\* the response for an input that is empty or no str
InvalidInput(diagnosis_input) ==
    Suggestions("not_found",
                IF Truthy(diagnosis_input) THEN diagnosis_input ELSE Str(""),
                << >>, 0, Str("Invalid diagnosis input"))

\* a response that reports success whatever the matches
FormatAlways(diagnosis_input, matches) ==
    Suggestions("success", diagnosis_input,
                [k \in 1..Len(matches) |-> FormatMatch(matches[k])], Len(matches), None)

\* the response for the matches the engine found
FormatResults(diagnosis_input, matches) ==
    IF Len(matches) = 0
    THEN Suggestions("not_found", diagnosis_input, << >>, 0,
                     Str("No NHIS-compliant drug found"))
    ELSE Suggestions("success", diagnosis_input,
                     [k \in 1..Len(matches) |-> FormatMatch(matches[k])],
                     Len(matches), None)

\* not diagnosis_input or not isinstance(diagnosis_input, str)
IsInvalidInput(diagnosis_input) ==
    ~Truthy(diagnosis_input) \/ diagnosis_input.t # "str"

(***************************************************************************)
(* Inputs of the prescription module                                       *)
(***************************************************************************)

\* most entries of a catalog
MaxCatalog == 3

\* catalog entries: several tags matching at once, a padded tag in upper
\* case, a lower-case level, an unknown level, no level and a tag that is
\* no string, tags that are no list, a whitespace-only tag
DrugPool ==
    << Obj(<<"id", "generic_name", "nhis_level", "formulation", "indications_tags">>,
           <<Str("gh-001"), Str("artesunate"), Str("A"), Str("Injection"),
             Arr(<<Str("malaria"), Str("severe malaria")>>)>>),
       Obj(<<"id", "generic_name", "nhis_level", "indications_tags">>,
           <<Str("gh-002"), Str("paracetamol"), Str("B"), Arr(<<Str("Fever ")>>)>>),
       Obj(<<"id", "generic_name", "nhis_level", "indications_tags">>,
           <<Str("gh-003"), Str("quinine"), Str("a"),
             Arr(<<Str("typhoid"), Str("malaria")>>)>>),
       Obj(<<"id", "generic_name", "nhis_level", "indications_tags">>,
           <<Str("gh-004"), Str("ibuprofen"), Str("X"), Arr(<<Str("fever")>>)>>),
       Obj(<<"id", "generic_name", "indications_tags">>,
           <<Str("gh-005"), Str("ors"), Arr(<<IntNum(5), Str("malaria")>>)>>),
       Obj(<<"id", "generic_name", "nhis_level", "indications_tags">>,
           <<Str("gh-006"), Str("zinc"), Str("C"), Str("malaria")>>),
       Obj(<<"id", "generic_name", "nhis_level", "indications_tags">>,
           <<Str("gh-007"), Str("amoxicillin"), Str("B"), Arr(<<Str("  ")>>)>>) >>

\* the catalogs: up to MaxCatalog entries of the pool
Catalogs ==
    {Arr([k \in 1..Len(q) |-> DrugPool[q[k]]]) : q \in Selections(Len(DrugPool), MaxCatalog)}

\* the states of the catalog file: a catalog, no file, rejected text, a
\* JSON document that is no array
CatalogFiles == {FileOf(c) : c \in Catalogs} \cup {NoFile, BadFile, FileOf(EmptyDict)}

\* the diagnosis inputs: None, a number, empty, blank, and strings
DiagnosisInputs ==
    { None, IntNum(5), Str(""), Str("  "), Str("Malaria"),
      Str("Severe Malaria with fever"), Str(" FEVER "), Str("cough  and cold") }

(***************************************************************************)
(* State                                                                   *)
(***************************************************************************)

VARIABLES
    GROQ_API_KEY,       \* bool(GROQ_API_KEY): an API key is configured
    v_pc,               \* position in extract_vitals_hybrid
    transcript,         \* its argument
    resp1,              \* what the service answered to the first call
    resp2,              \* what the service answered to the retry
    vitals_groq,        \* locals of extract_vitals_hybrid
    groq_norm,
    vitals_regex,
    regex_yield,        \* history: what extract_vitals_regex returned in step 2
    missing,
    groq_norm_retry,
    v_returned,         \* the record extract_vitals_hybrid returned
    v_posts,            \* calls of the completion service in this request
    v_regex_runs,       \* calls of extract_vitals_regex in this request
    d_pc,               \* position of the /diagnose or /confirm-diagnosis request
    d_endpoint,         \* the handler that serves it
    d_symptoms,         \* req.symptoms
    d_resp,             \* what the service answered to _get_groq_diagnosis
    diagnoses_raw,      \* what _get_groq_diagnosis returned
    d_response,         \* the outcome: HTTP status and diagnosis list
    d_posts,            \* calls of the completion service in this request
    db_file,            \* the catalog file db_schema.json
    _engine,            \* interface._engine: None or the engine
    diagnosis_input,    \* argument of the last get_ghana_suggestions call
    g_matches,          \* what engine.find_drugs_for gave that call
    g_result,           \* what the call returned, or that it raised
    g_since,            \* history: "reload" when no get_ghana_suggestions call
                        \* followed the last load or reload, "repeat" when
                        \* that call repeated the one before it on the same
                        \* engine, else "first"
    h_catalog,          \* history: the database as the engine loaded it
    drug_id,            \* argument of the last get_drug_by_id call
    g_drug,             \* what that call returned, or that it raised
    r_result,           \* how the last reload_database call ended
    h_reload,           \* history: _engine and the file as that call found them
    heap,               \* the list objects json.load has built, by identity
    db_ref,             \* self.database: the identity of the engine's list
    m_pc,               \* position of the thread in find_drugs_for
    m_diagnosis,        \* its argument
    m_ref,              \* the list its for statement iterates over
    m_i,                \* entries that iterator has handed out
    m_matches,          \* its local matches
    m_result,           \* what it returned
    h_during,           \* history: the catalogs the engine held during the call
    l_pc,               \* position of the thread in reload_database
    l_doc,              \* what json.load gave it
    l_count,            \* reloads begun
    x_pc,               \* "input" before _robust_json_extract ran, then "done"
    x_input,            \* the text it is given, by its parts
    x_result,           \* what it returned, or that it raised
    n_pc,               \* "input" before _normalize_vitals ran, then "done"
    n_input,            \* the value it is given
    n_result,           \* what it returned
    n_again,            \* what it returned when given that record again
    p_pc,               \* "input" before extract_vitals_regex ran, then "done"
    p_text,             \* the transcript it is given
    p_result,           \* what it returned
    c_pc,               \* per thread: its position in a call of the interface
    c_call,             \* per thread: the function it calls
    c_new,              \* per thread: the engine it has constructed, by
                        \* identity (0: none)
    c_doc,              \* per thread: the document its reload has loaded
    c_self,             \* per thread: the engine its reload runs on, by
                        \* identity (0: none)
    c_heap,             \* the PrescriptionEngine objects, by identity
    c_ref,              \* the identity of the engine _engine holds (0: None)
    h_built,            \* history: PrescriptionEngine objects constructed
    h_ctor,             \* history: calls of PrescriptionEngine()
    h_reloads,          \* history: calls of engine.reload_database()
    h_reads,            \* history: times the catalog file was opened and read
    f_heap,             \* the lists and dicts of the engine's methods, by identity
    f_database,         \* the identity of the list self.database holds (0: no
                        \* engine)
    f_call,             \* the last call of a method: its name and argument
    f_returned,         \* the identity of the object it returned (0: none)
    f_result,           \* what it returned, by value
    f_repeat,           \* it repeats an earlier call
    h_loaded,           \* history: the entries of self.database as loaded
    h_first             \* history: per call, what the first such call returned

vitalsVars == << GROQ_API_KEY, v_pc, transcript, resp1, resp2, vitals_groq, groq_norm,
                 vitals_regex, regex_yield, missing, groq_norm_retry, v_returned, v_posts,
                 v_regex_runs >>

diagVars == << d_pc, d_endpoint, d_symptoms, d_resp, diagnoses_raw, d_response, d_posts >>

drugVars == << db_file, _engine, diagnosis_input, g_matches, g_result, g_since, h_catalog,
              drug_id, g_drug, r_result, h_reload >>

reloadVars == << heap, db_ref, m_pc, m_diagnosis, m_ref, m_i, m_matches, m_result,
                h_during, l_pc, l_doc, l_count >>

pureVars == << x_pc, x_input, x_result, n_pc, n_input, n_result, n_again, p_pc, p_text,
              p_result >>

callVars == << c_pc, c_call, c_new, c_doc, c_self, c_heap, c_ref, h_built, h_ctor,
              h_reloads, h_reads >>

findVars == << f_heap, f_database, f_call, f_returned, f_result, f_repeat, h_loaded,
              h_first >>

vars == << vitalsVars, diagVars, drugVars, reloadVars, pureVars, callVars, findVars >>

\* no call of extract_vitals_hybrid yet
VitalsInit ==
    /\ v_pc = "idle"
    /\ transcript = ""
    /\ resp1 = NoResponse
    /\ resp2 = NoResponse
    /\ vitals_groq = None
    /\ groq_norm = None
    /\ vitals_regex = None
    /\ regex_yield = None
    /\ missing = << >>
    /\ groq_norm_retry = None
    /\ v_returned = None
    /\ v_posts = 0
    /\ v_regex_runs = 0

\* no diagnosis request yet
DiagInit ==
    /\ d_pc = "idle"
    /\ d_endpoint = "none"
    /\ d_symptoms = ""
    /\ d_resp = NoResponse
    /\ diagnoses_raw = None
    /\ d_response = None
    /\ d_posts = 0

\* no call was made
NoResult == [ok |-> FALSE, v |-> Str("no call")]

\* the prescription module after import: _engine is None
DrugsInit ==
    /\ _engine = None
    /\ diagnosis_input = None
    /\ g_matches = << >>
    /\ g_result = NoResult
    /\ g_since = "reload"
    /\ h_catalog = None
    /\ drug_id = None
    /\ g_drug = NoResult
    /\ r_result = NoResult
    /\ h_reload = None

\* extract_vitals_regex is not under test
RegexInit ==
    /\ p_pc = "idle"
    /\ p_text = ""
    /\ p_result = None

\* _robust_json_extract is not under test
ExtractInit ==
    /\ x_pc = "idle"
    /\ x_input = None
    /\ x_result = NoResult

\* _normalize_vitals is not under test
NormalizeInit ==
    /\ n_pc = "idle"
    /\ n_input = None
    /\ n_result = None
    /\ n_again = None

\* no thread calls the interface
CallInit ==
    /\ c_pc = << >>
    /\ c_call = << >>
    /\ c_new = << >>
    /\ c_doc = << >>
    /\ c_self = << >>
    /\ c_heap = << >>
    /\ c_ref = 0
    /\ h_built = 0
    /\ h_ctor = 0
    /\ h_reloads = 0
    /\ h_reads = 0

\* no method was called
NoCall == [op |-> "none", arg |-> None]

\* the methods of an engine are not called object by object
FindInit ==
    /\ f_heap = << >>
    /\ f_database = 0
    /\ f_call = NoCall
    /\ f_returned = 0
    /\ f_result = NoResult
    /\ f_repeat = FALSE
    /\ h_loaded = << >>
    /\ h_first = << >>

\* no function is under test
PureInit == ExtractInit /\ NormalizeInit /\ RegexInit /\ CallInit /\ FindInit

\* no thread is in the engine
ReloadInit ==
    /\ heap = << >>
    /\ db_ref = 0
    /\ m_pc = "idle"
    /\ m_diagnosis = None
    /\ m_ref = 0
    /\ m_i = 0
    /\ m_matches = << >>
    /\ m_result = << >>
    /\ h_during = {}
    /\ l_pc = "idle"
    /\ l_doc = None
    /\ l_count = 0

\* all(d.values()) in place of any(d.values())
AllValues(d) == \A k \in 1..Len(VitalKeys) : Truthy(d[VitalKeys[k]])

\* any(d.values()) for a vitals record
AnyValue(d) == \E k \in 1..Len(VitalKeys) : Truthy(d[VitalKeys[k]])

RECURSIVE MissingFrom(_, _)
\* [k for k, v in vitals_regex.items() if v is None], from key index k on
MissingFrom(d, k) ==
    IF k > Len(VitalKeys) THEN << >>
    ELSE (IF d[VitalKeys[k]] = None THEN << VitalKeys[k] >> ELSE << >>)
         \o MissingFrom(d, k + 1)

\* a merge that takes every value of the retry, missing or not
MergeOverwrite(regex, miss, retry) ==
    [f \in DOMAIN regex |-> IF Truthy(retry[f]) THEN retry[f] ELSE regex[f]]

\* a merge that takes the retry's value for a missing field even when empty
MergeFillsEmpty(regex, miss, retry) ==
    [f \in DOMAIN regex |->
        IF (\E k \in 1..Len(miss) : miss[k] = f) /\ retry[f] # None
        THEN retry[f] ELSE regex[f]]

\* the merge loop: for key in missing: if groq_norm_retry.get(key): take it
Merge(regex, miss, retry) ==
    [f \in DOMAIN regex |->
        IF (\E k \in 1..Len(miss) : miss[k] = f) /\ Truthy(retry[f])
        THEN retry[f] ELSE regex[f]]

\* a retry whenever a key is configured
RetryAlways(miss, key) == key

\* if missing and GROQ_API_KEY
RetryDue(miss, key) == Len(miss) > 0 /\ key

\* the responses the service can give to a call of extract_vitals_groq_api:
\* without an API key the service is not called
ServiceAnswers == IF GROQ_API_KEY THEN VitalsResponses ELSE {NoResponse}

(***************************************************************************)
(* extract_vitals_hybrid, step by step                                     *)
(***************************************************************************)

\* extract_vitals_hybrid(t) is called
HybridCall(t) ==
    /\ v_pc = "idle"
    /\ transcript' = t
    /\ v_pc' = "step1"
    /\ UNCHANGED << GROQ_API_KEY, resp1, resp2, vitals_groq, groq_norm, vitals_regex,
                    regex_yield, missing, groq_norm_retry, v_returned, v_posts, v_regex_runs >>
    /\ UNCHANGED << diagVars, drugVars, reloadVars, pureVars, callVars, findVars >>

\* Step 1: the primary call, and the early return when it found a vital
HybridPrimary(resp) ==
    /\ v_pc = "step1"
    /\ \E r \in {extract_vitals_groq_api(GROQ_API_KEY, resp)} :
       \E norm \in {_normalize_vitals(r.v)} :
           /\ resp1' = resp
           /\ v_posts' = IF GROQ_API_KEY THEN v_posts + 1 ELSE v_posts
           /\ IF ~r.ok
              THEN /\ v_pc' = "raised"
                   /\ UNCHANGED << vitals_groq, groq_norm, v_returned >>
              ELSE /\ vitals_groq' = r.v
                   /\ groq_norm' = IF Truthy(r.v) THEN norm ELSE groq_norm
                   /\ IF Truthy(r.v) /\ AnyValue(norm)
                      THEN v_returned' = norm /\ v_pc' = "done"
                      ELSE v_returned' = v_returned /\ v_pc' = "step2"
    /\ UNCHANGED << GROQ_API_KEY, transcript, resp2, vitals_regex, regex_yield, missing,
                    groq_norm_retry, v_regex_runs >>
    /\ UNCHANGED << diagVars, drugVars, reloadVars, pureVars, callVars, findVars >>

\* Step 2: the regex extractor
HybridRegex ==
    /\ v_pc = "step2"
    /\ \E found \in {extract_vitals_regex(transcript)} :
           /\ vitals_regex' = found
           /\ regex_yield' = found
           /\ missing' = MissingFrom(found, 1)
    /\ v_regex_runs' = v_regex_runs + 1
    /\ v_pc' = "step3"
    /\ UNCHANGED << GROQ_API_KEY, transcript, resp1, resp2, vitals_groq, groq_norm,
                    groq_norm_retry, v_returned, v_posts >>
    /\ UNCHANGED << diagVars, drugVars, reloadVars, pureVars, callVars, findVars >>

\* Step 3 when a field is missing and a key is configured: the retry and the merge
HybridRetry(resp) ==
    /\ v_pc = "step3"
    /\ RetryDue(missing, GROQ_API_KEY)
    /\ \E r \in {extract_vitals_groq_api(GROQ_API_KEY, resp)} :
       \E norm \in {_normalize_vitals(r.v)} :
           /\ resp2' = resp
           /\ v_posts' = v_posts + 1
           /\ IF ~r.ok
              THEN /\ v_pc' = "raised"
                   /\ UNCHANGED << groq_norm_retry, vitals_regex, v_returned >>
              ELSE /\ groq_norm_retry' = IF Truthy(r.v) THEN norm ELSE groq_norm_retry
                   /\ vitals_regex' = IF Truthy(r.v) THEN Merge(vitals_regex, missing, norm)
                                      ELSE vitals_regex
                   /\ v_returned' = vitals_regex'
                   /\ v_pc' = "done"
    /\ UNCHANGED << GROQ_API_KEY, transcript, resp1, vitals_groq, groq_norm, missing,
                    regex_yield, v_regex_runs >>
    /\ UNCHANGED << diagVars, drugVars, reloadVars, pureVars, callVars, findVars >>

\* Step 3 otherwise: the regex record is returned as it is
HybridReturnRegex ==
    /\ v_pc = "step3"
    /\ ~RetryDue(missing, GROQ_API_KEY)
    /\ v_returned' = vitals_regex
    /\ v_pc' = "done"
    /\ UNCHANGED << GROQ_API_KEY, transcript, resp1, resp2, vitals_groq, groq_norm,
                    vitals_regex, regex_yield, missing, groq_norm_retry, v_posts,
                    v_regex_runs >>
    /\ UNCHANGED << diagVars, drugVars, reloadVars, pureVars, callVars, findVars >>

VitalsNext ==
    \/ \E t \in Transcripts : HybridCall(t)
    \/ \E resp \in ServiceAnswers : HybridPrimary(resp)
    \/ HybridRegex
    \/ \E resp \in ServiceAnswers : HybridRetry(resp)
    \/ HybridReturnRegex

\* the process serving vitals requests: the API key is configured or not
InitVitals ==
    /\ GROQ_API_KEY \in BOOLEAN
    /\ db_file = NoFile
    /\ VitalsInit /\ DiagInit /\ DrugsInit /\ ReloadInit /\ PureInit

SpecVitals == InitVitals /\ [][VitalsNext]_vars

(***************************************************************************)
(* diagnose and confirm_diagnosis, each request in one step                *)
(***************************************************************************)

\* what both handlers do: 400 for blank symptoms, else one call of
\* _get_groq_diagnosis and the conversion of what it returned
DiagnosisRequest(endpoint, symptoms, resp) ==
    /\ d_pc = "idle"
    /\ d_pc' = "done"
    /\ d_endpoint' = endpoint
    /\ d_symptoms' = symptoms
    /\ IF Strip(symptoms) = ""
       THEN /\ d_response' = Response(400, << >>)
            /\ UNCHANGED << d_resp, diagnoses_raw, d_posts >>
       ELSE \E r \in {_get_groq_diagnosis(GROQ_API_KEY, resp)} :
                /\ d_resp' = resp
                /\ diagnoses_raw' = r
                /\ d_posts' = IF GROQ_API_KEY THEN d_posts + 1 ELSE d_posts
                /\ d_response' = AfterGroq(endpoint, r)
    /\ UNCHANGED << vitalsVars, drugVars, reloadVars, pureVars, callVars, findVars >>

\* POST /diagnose
diagnose(symptoms, resp) == DiagnosisRequest("diagnose", symptoms, resp)

\* POST /confirm-diagnosis
confirm_diagnosis(symptoms, resp) == DiagnosisRequest("confirm_diagnosis", symptoms, resp)

\* the responses the service can give to _get_groq_diagnosis
DiagAnswers == IF GROQ_API_KEY THEN DiagResponses ELSE {NoResponse}

DiagNext ==
    \/ \E symptoms \in Symptoms, resp \in DiagAnswers : diagnose(symptoms, resp)
    \/ \E symptoms \in Symptoms, resp \in DiagAnswers : confirm_diagnosis(symptoms, resp)

InitDiag ==
    /\ GROQ_API_KEY \in BOOLEAN
    /\ db_file = NoFile
    /\ VitalsInit /\ DiagInit /\ DrugsInit /\ ReloadInit /\ PureInit

SpecDiag == InitDiag /\ [][DiagNext]_vars

(***************************************************************************)
(* get_ghana_suggestions, each call in one step                            *)
(***************************************************************************)

\* _get_engine(): the engine in place, or a new one from the catalog file
_get_engine == IF _engine # None THEN Returned(_engine) ELSE PrescriptionEngine(db_file)

\* the database as loaded: that of an engine built in this call, else the
\* one recorded when the engine in place was loaded
Loaded(database) == IF _engine = None THEN database ELSE h_catalog

\* the call get_ghana_suggestions(x) repeats the one before it: the same
\* input, no reload in between and no engine built by this call
Repeats(x) ==
    g_since # "reload" /\ x = diagnosis_input /\ (IsInvalidInput(x) \/ _engine # None)

\* get_ghana_suggestions(x): an invalid input is answered without the
\* engine; otherwise the engine is taken or built, which can raise, and
\* its matches are formatted; an exception of find_drugs_for leaves the call
get_ghana_suggestions(x) ==
    /\ diagnosis_input' = x
    /\ IF IsInvalidInput(x)
       THEN /\ g_result' = Returned(InvalidInput(x))
            /\ g_matches' = << >>
            /\ UNCHANGED << _engine, h_catalog >>
       ELSE \E e \in {_get_engine} :
                IF ~e.ok
                THEN /\ g_result' = Raised
                     /\ g_matches' = << >>
                     /\ UNCHANGED << _engine, h_catalog >>
                ELSE \E found \in {find_drugs_for(e.v.database, x)} :
                         /\ _engine' = e.v
                         /\ g_matches' = IF found.ok THEN found.v ELSE << >>
                         /\ g_result' = IF found.ok
                                        THEN Returned(FormatResults(x, found.v))
                                        ELSE Raised
                         /\ h_catalog' = Loaded(e.v.database)
    /\ g_since' = IF Repeats(x) THEN "repeat" ELSE "first"
    /\ UNCHANGED << db_file, drug_id, g_drug, r_result, h_reload, vitalsVars, diagVars,
                    reloadVars, pureVars, callVars, findVars >>

DrugsNext == \E x \in DiagnosisInputs : get_ghana_suggestions(x)

(***************************************************************************)
(* The catalog over the life of the process: get_ghana_suggestions,        *)
(* get_drug_by_id and reload_database (prescription_module/interface.py)   *)
(* in any order, while the catalog file is replaced on disk                *)
(***************************************************************************)

\* interface.get_drug_by_id(id): the engine is taken or built, which can
\* raise, and asked for the entry
get_drug_by_id(id) ==
    /\ drug_id' = id
    /\ \E e \in {_get_engine} :
           IF ~e.ok
           THEN /\ g_drug' = Raised
                /\ UNCHANGED << _engine, h_catalog, g_since >>
           ELSE /\ _engine' = e.v
                /\ h_catalog' = Loaded(e.v.database)
                /\ g_since' = IF _engine = None THEN "reload" ELSE g_since
                /\ g_drug' = DrugById(e.v.database, id)
    /\ UNCHANGED << db_file, diagnosis_input, g_matches, g_result, r_result, h_reload,
                    vitalsVars, diagVars,
                    reloadVars, pureVars, callVars, findVars >>

\* interface.reload_database(): the engine in place reloads its file and is
\* what the method left of it, also when the method raised; without an
\* engine one is built, and an exception leaves _engine None
reload_database ==
    /\ IF _engine # None
       THEN \E e \in {ReloadEngine(_engine, db_file)} :
                /\ r_result' = IF e.ok THEN Returned(None) ELSE Raised
                /\ _engine' = e.v
                /\ h_catalog' = e.v.database
       ELSE \E e \in {PrescriptionEngine(db_file)} :
                IF ~e.ok
                THEN /\ r_result' = Raised
                     /\ UNCHANGED << _engine, h_catalog >>
                ELSE /\ r_result' = Returned(None)
                     /\ _engine' = e.v
                     /\ h_catalog' = e.v.database
    /\ h_reload' = [before |-> _engine, file |-> db_file]
    /\ g_since' = "reload"
    /\ UNCHANGED << db_file, diagnosis_input, g_matches, g_result, drug_id, g_drug,
                    vitalsVars, diagVars,
                    reloadVars, pureVars, callVars, findVars >>

\* the catalog files of a deployment: two catalogs, one of them with a B
\* entry before an A entry, no file, rejected text, a JSON object, a JSON
\* number
DeployedFiles ==
    { FileOf(Arr(<< DrugPool[2], DrugPool[1], DrugPool[4] >>)),
      FileOf(Arr(<< DrugPool[3], DrugPool[7] >>)),
      NoFile, BadFile, FileOf(EmptyDict), FileOf(IntNum(5)) }

\* db_schema.json is replaced on disk, or removed
ReplaceFile(file) ==
    /\ db_file # file
    /\ db_file' = file
    /\ UNCHANGED << _engine, diagnosis_input, g_matches, g_result, g_since, h_catalog,
                    drug_id, g_drug, r_result, h_reload, vitalsVars, diagVars,
                    reloadVars, pureVars, callVars, findVars >>

\* the diagnoses and ids asked of a deployment
DeployedInputs == { Str(""), Str("Malaria"), Str(" FEVER ") }

DrugIds == { Str("gh-001"), Str("gh-003"), Str("gh-999") }

CatalogNext ==
    \/ \E x \in DeployedInputs : get_ghana_suggestions(x)
    \/ \E id \in DrugIds : get_drug_by_id(id)
    \/ reload_database
    \/ \E file \in DeployedFiles : ReplaceFile(file)

InitCatalog ==
    /\ GROQ_API_KEY = FALSE
    /\ db_file \in DeployedFiles
    /\ VitalsInit /\ DiagInit /\ DrugsInit /\ ReloadInit /\ PureInit

SpecCatalog == InitCatalog /\ [][CatalogNext]_vars

(***************************************************************************)
(* The methods of a PrescriptionEngine on objects                          *)
(* (prescription_module/engine.py).  Lists and dicts are objects: f_heap[r] *)
(* is the object with identity r, a list holding the identities of its     *)
(* items and a dict its value; no method writes into a dict or into the    *)
(* tags it holds, so these are kept by value.  The objects json.load made  *)
(* come first, the entries and then the list self.database holds; a call   *)
(* adds the objects it makes, and the caller drops what the call before    *)
(* returned.                                                               *)
(***************************************************************************)

\* a list, holding the identities of its items
ListObject(refs) == [kind |-> "list", refs |-> refs, val |-> None]

\* a dict, holding its value
DictObject(val) == [kind |-> "dict", refs |-> << >>, val |-> val]

\* json.load of an array of objects: a dict for each entry, then the list
LoadedHeap(catalog) ==
    [k \in 1..Len(catalog.items) |-> DictObject(catalog.items[k])]
        \o << ListObject([k \in 1..Len(catalog.items) |-> k]) >>

\* the values of the items of list ref, in the order the list holds them
ListValue(objects, ref) ==
    [k \in 1..Len(objects[ref].refs) |-> objects[objects[ref].refs[k]].val]

\* the objects a call finds: those of the catalog
CatalogObjects(objects, database) == SubSeq(objects, 1, database)

\* the entries of self.database the loop of find_drugs_for takes, in the
\* order of self.database
Matching(objects, database, diagnosis_lower) ==
    SelectSeq(objects[database].refs,
              LAMBDA r : DrugMatches(objects[r].val, diagnosis_lower))

\* "matches = []" and "matches.append(drug.copy())" for each of the
\* matching entries: a new list, and in it a new dict for each
Collected(objects, matching) ==
    objects
        \o << ListObject([k \in 1..Len(matching) |-> Len(objects) + 1 + k]) >>
        \o [k \in 1..Len(matching) |-> DictObject(objects[matching[k]].val)]

\* self.database sorted in its place
SortTargetDatabase(matches, database) == database

\* the list matches.sort(...) sorts: matches
SortTarget(matches, database) == matches

\* list.sort(key=get_nhis_priority) on list ref: stable, and in place
SortedInPlace(objects, ref) ==
    [objects EXCEPT ![ref].refs =
        FlatSeq([k \in 1..Len(Priorities) |->
                   SelectSeq(objects[ref].refs,
                             LAMBDA r : get_nhis_priority(objects[r].val) = Priorities[k])])]

\* a call of a method: the objects after it, the identity of the object it
\* returned (0 for None and for an exception)
Outcome(ok, objects, ref) == [ok |-> ok, objects |-> objects, ref |-> ref]

\* "matches.sort(key=get_nhis_priority)" and "return matches"; the key
\* function raises before anything is moved
SortedOrRaised(objects, matches, database) ==
    IF SortRaises(ListValue(objects, SortTarget(matches, database)))
    THEN Outcome(FALSE, objects, 0)
    ELSE Outcome(TRUE, SortedInPlace(objects, SortTarget(matches, database)), matches)

\* "return []"
EmptyMatches(objects) == Outcome(TRUE, objects \o << ListObject(<< >>) >>, Len(objects) + 1)

\* find_drugs_for from "if not diagnosis_lower" on
MatchesFor(objects, database, diagnosis_lower) ==
    IF diagnosis_lower = "" THEN EmptyMatches(objects)
    ELSE SortedOrRaised(Collected(objects, Matching(objects, database, diagnosis_lower)),
                        Len(objects) + 1, database)

\* PrescriptionEngine.find_drugs_for(diagnosis) of the engine whose
\* self.database is the list database, every entry of it a dict
FindDrugsFor(objects, database, diagnosis) ==
    IF ~Truthy(diagnosis) \/ diagnosis.t # "str" THEN EmptyMatches(objects)
    ELSE MatchesFor(objects, database, Strip(Lower(diagnosis.s)))

\* PrescriptionEngine.get_drug_by_id(drug_id) of that engine: a new dict,
\* the copy of the first entry with the id, or None
GetDrugById(objects, database, id) ==
    IF FirstWithId(ListValue(objects, database), id) = None
    THEN Outcome(TRUE, objects, 0)
    ELSE Outcome(TRUE,
                 objects \o << DictObject(FirstWithId(ListValue(objects, database), id)) >>,
                 Len(objects) + 1)

\* the catalogs the engine loaded: one with an entry without level and a B
\* entry before an A entry, one with an entry of unknown level last, one
\* with a blank tag
FindCatalogs ==
    { Arr(<< DrugPool[5], DrugPool[2], DrugPool[1] >>),
      Arr(<< DrugPool[2], DrugPool[1], DrugPool[4] >>),
      Arr(<< DrugPool[3], DrugPool[7] >>) }

\* the ids asked of the engine: one in the catalog, one in none
FindIds == { Str("gh-001"), Str("gh-999") }

\* the calls made
FindCalls ==
    {[op |-> "find_drugs_for", arg |-> x] : x \in DeployedInputs}
        \cup {[op |-> "get_ghana_suggestions", arg |-> x] : x \in DeployedInputs}
        \cup {[op |-> "get_drug_by_id", arg |-> id] : id \in FindIds}

\* the call returns: what it returned is recorded, by identity and by
\* value, and kept as the first result of such a call if it is the first
Return(call, out, result) ==
    /\ f_heap' = out.objects
    /\ f_returned' = out.ref
    /\ f_call' = call
    /\ f_result' = result
    /\ f_repeat' = (h_first[call] # NoResult)
    /\ h_first' = IF h_first[call] = NoResult THEN [h_first EXCEPT ![call] = result]
                  ELSE h_first
    /\ UNCHANGED << f_database, h_loaded, vitalsVars, diagVars, drugVars, reloadVars,
                    pureVars, callVars >>

\* engine.find_drugs_for(diagnosis): the list of matches is returned
EngineFind(diagnosis) ==
    \E out \in {FindDrugsFor(CatalogObjects(f_heap, f_database), f_database, diagnosis)} :
        Return([op |-> "find_drugs_for", arg |-> diagnosis], out,
               IF out.ok THEN Returned(Arr(ListValue(out.objects, out.ref))) ELSE Raised)

\* engine.get_drug_by_id(drug_id): the copy is returned, or None
EngineGetDrug(id) ==
    \E out \in {GetDrugById(CatalogObjects(f_heap, f_database), f_database, id)} :
        Return([op |-> "get_drug_by_id", arg |-> id], out,
               IF out.ref = 0 THEN Returned(None) ELSE Returned(out.objects[out.ref].val))

\* get_ghana_suggestions(x) with the engine in place: the response is made
\* of new dicts, and the matches are dropped
InterfaceSuggest(x) ==
    IF IsInvalidInput(x)
    THEN Return([op |-> "get_ghana_suggestions", arg |-> x],
                Outcome(TRUE, CatalogObjects(f_heap, f_database), 0),
                Returned(InvalidInput(x)))
    ELSE \E out \in {FindDrugsFor(CatalogObjects(f_heap, f_database), f_database, x)} :
             Return([op |-> "get_ghana_suggestions", arg |-> x],
                    Outcome(out.ok, CatalogObjects(out.objects, f_database), 0),
                    IF out.ok
                    THEN Returned(FormatResults(x, ListValue(out.objects, out.ref)))
                    ELSE Raised)

FindNext ==
    \/ \E x \in DeployedInputs : EngineFind(x)
    \/ \E id \in FindIds : EngineGetDrug(id)
    \/ \E x \in DeployedInputs : InterfaceSuggest(x)

\* the engine after PrescriptionEngine() has loaded a catalog
InitFind ==
    /\ GROQ_API_KEY = FALSE
    /\ db_file \in {FileOf(catalog) : catalog \in FindCatalogs}
    /\ VitalsInit /\ DiagInit /\ ReloadInit
    /\ ExtractInit /\ NormalizeInit /\ RegexInit /\ CallInit
    /\ _engine = PrescriptionEngine(db_file).v
    /\ diagnosis_input = None
    /\ g_matches = << >>
    /\ g_result = NoResult
    /\ g_since = "reload"
    /\ h_catalog = _engine.database
    /\ drug_id = None
    /\ g_drug = NoResult
    /\ r_result = NoResult
    /\ h_reload = None
    /\ f_heap = LoadedHeap(_engine.database)
    /\ f_database = Len(f_heap)
    /\ f_call = NoCall
    /\ f_returned = 0
    /\ f_result = NoResult
    /\ f_repeat = FALSE
    /\ h_loaded = _engine.database.items
    /\ h_first = [call \in FindCalls |-> NoResult]

SpecFind == InitFind /\ [][FindNext]_vars

\* the process serving prescription requests, for every catalog file
InitDrugs ==
    /\ GROQ_API_KEY = FALSE
    /\ db_file \in CatalogFiles
    /\ VitalsInit /\ DiagInit /\ DrugsInit /\ ReloadInit /\ PureInit

SpecDrugs == InitDrugs /\ [][DrugsNext]_vars

(***************************************************************************)
(* PrescriptionEngine.find_drugs_for and PrescriptionEngine.reload_database *)
(* in two threads of one process (prescription_module/engine.py).  Lists   *)
(* are objects: heap[r] is the value of the list with identity r, and the  *)
(* attribute self.database holds an identity.  A thread runs a statement   *)
(* at a time.                                                              *)
(***************************************************************************)

\* most reloads in one run
MaxReloads == 2

\* the list rewritten where it stands, as self.database[:] = json.load(f)
StoreInPlace(objects, ref, doc) == [heap |-> [objects EXCEPT ![ref] = doc], ref |-> ref]

\* self.database = json.load(f): the attribute is bound to the new list,
\* the list it held is left as it is
StoreDatabase(objects, ref, doc) ==
    [heap |-> Append(objects, doc), ref |-> Len(objects) + 1]

\* find_drugs_for(diagnosis) up to the for statement: the early returns,
\* and the iterator taken over the list self.database holds
FindStart(diagnosis) ==
    /\ m_pc \in {"idle", "done"}
    /\ m_diagnosis' = diagnosis
    /\ m_matches' = << >>
    /\ m_i' = 0
    /\ IF ~Truthy(diagnosis) \/ diagnosis.t # "str" \/ Strip(Lower(diagnosis.s)) = ""
       THEN /\ m_pc' = "done"
            /\ m_result' = << >>
            /\ h_during' = {}
            /\ UNCHANGED m_ref
       ELSE /\ m_pc' = "loop"
            /\ m_ref' = db_ref
            /\ h_during' = {heap[db_ref]}
            /\ UNCHANGED m_result
    /\ UNCHANGED << heap, db_ref, l_pc, l_doc, l_count, vitalsVars, diagVars, drugVars,
                    pureVars, callVars, findVars >>

\* one turn of "for drug in self.database": the iterator hands out the
\* next entry of its list, which is matched; or the list is exhausted,
\* matches is sorted and returned
FindStep ==
    /\ m_pc = "loop"
    /\ IF m_i < Len(Entries(heap[m_ref]))
       THEN /\ m_i' = m_i + 1
            /\ m_matches' =
                  IF DrugMatches(Entries(heap[m_ref])[m_i + 1],
                                 Strip(Lower(m_diagnosis.s)))
                  THEN Append(m_matches, Entries(heap[m_ref])[m_i + 1])
                  ELSE m_matches
            /\ UNCHANGED << m_pc, m_result >>
       ELSE /\ m_pc' = "done"
            /\ m_result' = SortByPriority(m_matches)
            /\ UNCHANGED << m_i, m_matches >>
    /\ UNCHANGED << heap, db_ref, m_diagnosis, m_ref, h_during, l_pc, l_doc, l_count,
                    vitalsVars, diagVars, drugVars,
                    pureVars, callVars, findVars >>

\* reload_database up to json.load(f): an exception ends the call with
\* self.database as it was
ReloadLoad(file) ==
    /\ l_pc = "idle"
    /\ l_count < MaxReloads
    /\ l_count' = l_count + 1
    /\ \E e \in {LoadFile(file)} :
           IF e.ok THEN l_pc' = "loaded" /\ l_doc' = e.v
           ELSE UNCHANGED << l_pc, l_doc >>
    /\ UNCHANGED << heap, db_ref, m_pc, m_diagnosis, m_ref, m_i, m_matches, m_result,
                    h_during, vitalsVars, diagVars, drugVars,
                    pureVars, callVars, findVars >>

\* reload_database: the assignment to self.database, and the print that
\* ends the call
ReloadAssign ==
    /\ l_pc = "loaded"
    /\ l_pc' = "idle"
    /\ l_doc' = None
    /\ \E st \in {StoreDatabase(heap, db_ref, l_doc)} :
           /\ heap' = st.heap
           /\ db_ref' = st.ref
    /\ h_during' = IF m_pc = "loop" THEN h_during \cup {l_doc} ELSE h_during
    /\ UNCHANGED << m_pc, m_diagnosis, m_ref, m_i, m_matches, m_result, l_count,
                    vitalsVars, diagVars, drugVars,
                    pureVars, callVars, findVars >>

\* the catalog the engine starts with and the files a reload finds
FirstCatalog == Arr(<< DrugPool[1], DrugPool[2], DrugPool[6] >>)

ReloadFiles ==
    { FileOf(Arr(<< DrugPool[3], DrugPool[4], DrugPool[1] >>)),
      FileOf(Arr(<< DrugPool[2] >>)),
      FileOf(Arr(<< >>)),
      NoFile, BadFile }

ThreadInputs == { Str(""), Str("Malaria"), Str("Severe Malaria with fever") }

ReloadNext ==
    \/ \E diagnosis \in ThreadInputs : FindStart(diagnosis)
    \/ FindStep
    \/ \E file \in ReloadFiles : ReloadLoad(file)
    \/ ReloadAssign

\* an engine holding FirstCatalog, no thread in it
InitReload ==
    /\ GROQ_API_KEY = FALSE
    /\ db_file = NoFile
    /\ VitalsInit /\ DiagInit /\ DrugsInit /\ PureInit
    /\ heap = << FirstCatalog >>
    /\ db_ref = 1
    /\ m_pc = "idle"
    /\ m_diagnosis = None
    /\ m_ref = 0
    /\ m_i = 0
    /\ m_matches = << >>
    /\ m_result = << >>
    /\ h_during = {}
    /\ l_pc = "idle"
    /\ l_doc = None
    /\ l_count = 0

SpecReload == InitReload /\ [][ReloadNext]_vars

(***************************************************************************)
(* _robust_json_extract on its own (backend/main.py): a text made of a     *)
(* prefix, a body and a suffix, the body bare or inside a markdown fence   *)
(***************************************************************************)

\* bodies: objects, flat and nested, one with a brace inside a string, one
\* with typographic double quotes and one with typographic single quotes
\* inside a string value; arrays; an array cut short; no JSON at all; a
\* closer before an opener
ObjectBodies ==
    { "{\"a\": 1}",
      "{\"bp\": \"120/80\", \"pulse\": 72}",
      "{\"a\": {\"b\": [1, 2]}, \"c\": \"x}y\"}",
      "{\"note\": \"<hi>\"}",
      "{\"note\": \"it~s\"}" }

ArrayBodies == { "[{\"a\":1},{\"b\":2}]", "[{\"a\":1}]", "[1, 2]" }

TruncatedBodies == { "[{\"a\":1},{\"b\":2}", "[{\"a\":1},{\"b\":2},{\"c\"" }

OtherBodies == { "", "no json here", "}{" }

Bodies == ObjectBodies \cup ArrayBodies \cup TruncatedBodies \cup OtherBodies

\* prose before and after the body, with and without braces and brackets
Prefixes == { "", "Here it is: ", "Use {x} as key. ", "List [1] follows: " }

Suffixes == { "", " Thanks.", " (see {y})", " [end]" }

\* how the body stands in the text: bare, in a fence, in a fence marked json
Wrappings == { "bare", "fence", "json fence" }

ExtractInputs ==
    { [prefix |-> pre, body |-> b, suffix |-> suf, wrap |-> w] :
        pre \in Prefixes, b \in Bodies, suf \in Suffixes, w \in Wrappings }

\* the text of an input
TextOf(in) ==
    in.prefix
    \o (CASE in.wrap = "bare" -> in.body
          [] in.wrap = "fence" -> Fence \o "\n" \o in.body \o "\n" \o Fence
          [] in.wrap = "json fence" -> Fence \o "json\n" \o in.body \o "\n" \o Fence)
    \o in.suffix

\* _robust_json_extract(text) is called
RobustJsonExtract ==
    /\ x_pc = "input"
    /\ x_pc' = "done"
    /\ x_result' = _robust_json_extract(Str(TextOf(x_input)))
    /\ UNCHANGED << x_input, n_pc, n_input, n_result, n_again, p_pc, p_text, p_result,
                    vitalsVars, diagVars, drugVars,
                    reloadVars, callVars, findVars >>

ExtractNext == RobustJsonExtract

InitExtract ==
    /\ GROQ_API_KEY = FALSE
    /\ db_file = NoFile
    /\ VitalsInit /\ DiagInit /\ DrugsInit /\ ReloadInit
    /\ NormalizeInit /\ RegexInit /\ CallInit /\ FindInit
    /\ x_pc = "input"
    /\ x_input \in ExtractInputs
    /\ x_result = NoResult

SpecExtract == InitExtract /\ [][ExtractNext]_vars

(***************************************************************************)
(* _normalize_vitals on its own (backend/main.py): any JSON value as input *)
(***************************************************************************)

\* most members of an input object
MaxKeys == 2

\* keys of the input objects, in an order that is not the alias order:
\* three aliases of pulse, one of spo2, and bp
NormKeys == << "heart_rate", "hr", "pulse", "o2sat", "bp" >>

\* values of the members: an int, a float, a padded string, a blank string,
\* the empty string, null, a boolean, an array, an object
NormValues ==
    { IntNum(88), FloatNum(366, 1), Str(" 72 "), Str("  "), Str(""), None, Bool(TRUE),
      Arr(<< IntNum(1), IntNum(2) >>), Obj(<< "a" >>, << IntNum(1) >>) }

\* the objects with up to MaxKeys of the keys, each with any of the values
NormObjects ==
    { Obj([k \in 1..Len(q) |-> NormKeys[q[k]]], vals) :
        q \in Selections(Len(NormKeys), MaxKeys), vals \in UNION {[1..n -> NormValues] : n \in 0..MaxKeys} }

\* values that are no object
NonObjects ==
    { None, Str("pulse"), IntNum(5), FloatNum(5, 1), Bool(FALSE), Arr(<< >>),
      Arr(<< Obj(<< "pulse" >>, << IntNum(80) >>) >>) }

NormalizeInputs == {o \in NormObjects : Len(o.keys) = Len(o.vals)} \cup NonObjects

\* _normalize_vitals(obj) is called
NormalizeVitals ==
    /\ n_pc = "input"
    /\ n_pc' = "done"
    /\ n_result' = _normalize_vitals(n_input)
    /\ UNCHANGED << n_input, n_again, x_pc, x_input, x_result, p_pc, p_text, p_result,
                    vitalsVars, diagVars, drugVars,
                    reloadVars, callVars, findVars >>

\* a dict of the five fields, as extract_vitals_hybrid returns it
VitalsDict(record) == Obj(VitalKeys, [k \in 1..Len(VitalKeys) |-> record[VitalKeys[k]]] \o << >>)

\* process_audio: _normalize_vitals is given a record that it returned
NormalizeAgain ==
    /\ n_pc = "done"
    /\ n_pc' = "twice"
    /\ n_again' = _normalize_vitals(VitalsDict(n_result))
    /\ UNCHANGED << n_input, n_result, x_pc, x_input, x_result, p_pc, p_text, p_result,
                    vitalsVars, diagVars, drugVars, reloadVars, callVars, findVars >>

NormalizeNext == NormalizeVitals \/ NormalizeAgain

InitNormalize ==
    /\ GROQ_API_KEY = FALSE
    /\ db_file = NoFile
    /\ VitalsInit /\ DiagInit /\ DrugsInit /\ ReloadInit
    /\ ExtractInit /\ RegexInit /\ CallInit /\ FindInit
    /\ n_pc = "input"
    /\ n_input \in NormalizeInputs
    /\ n_result = None
    /\ n_again = None

SpecNormalize == InitNormalize /\ [][NormalizeNext]_vars

(***************************************************************************)
(* extract_vitals_regex on its own (backend/main.py)                       *)
(***************************************************************************)

\* most phrases of a transcript given to extract_vitals_regex
MaxParts == 2

\* phrases for each field and several of its patterns; for spo2, values
\* inside, at the ends of and outside 70..100
RegexPhrases ==
    << "BP is 140 over 90", "bp 120/80", "88 bpm", "pulse 72 bpm", "temp 37.5",
       "38 degrees", "weight 70", "65.5 kg", "spo2 45", "97% oxygen", "oxygen 70",
       "SpO2 is 100", "spo2 of 45", "o2 sat 101" >>

\* the transcripts: up to MaxParts of the phrases, joined by ", "
RegexTranscripts ==
    {JoinStr([k \in 1..Len(q) |-> RegexPhrases[q[k]]] \o << >>, ", ") :
        q \in Selections(Len(RegexPhrases), MaxParts)}

\* extract_vitals_regex(text) is called
ExtractVitalsRegex ==
    /\ p_pc = "input"
    /\ p_pc' = "done"
    /\ p_result' = extract_vitals_regex(p_text)
    /\ UNCHANGED << p_text, x_pc, x_input, x_result, n_pc, n_input, n_result, n_again,
                    vitalsVars, diagVars, drugVars, reloadVars, callVars, findVars >>

RegexNext == ExtractVitalsRegex

InitRegex ==
    /\ GROQ_API_KEY = FALSE
    /\ db_file = NoFile
    /\ VitalsInit /\ DiagInit /\ DrugsInit /\ ReloadInit
    /\ ExtractInit /\ NormalizeInit /\ CallInit /\ FindInit
    /\ p_pc = "input"
    /\ p_text \in RegexTranscripts
    /\ p_result = None

SpecRegex == InitRegex /\ [][RegexNext]_vars

(***************************************************************************)
(* First calls of the interface in concurrent threads                      *)
(* (prescription_module/interface.py, PrescriptionEngine.reload_database). *)
(* Engines are objects: c_heap[r] is the engine with identity r, and the   *)
(* global _engine holds an identity (c_ref), the variable _engine being    *)
(* the value of that engine.  A thread runs a statement part at a time:    *)
(* the test of _engine, the constructor call, the assignment to _engine,   *)
(* the read of _engine for the return, the method of the engine; in a      *)
(* reload the read of _engine, the read of the file, the store into        *)
(* self.database and the read of self.database for the print.  There is no *)
(* lock in the module.                                                     *)
(***************************************************************************)

\* threads calling the interface
MaxThreads == 3

Threads == 1..MaxThreads

\* the functions of the interface
InterfaceCalls == {"get_ghana_suggestions", "get_drug_by_id", "reload_database"}

\* what the calls of the threads leave alone
resultVars == << diagnosis_input, g_matches, g_result, g_since, h_catalog, drug_id, g_drug,
                r_result, h_reload >>

\* thread t calls function f of the interface
CallInterface(t, f) ==
    /\ c_pc[t] = "idle"
    /\ c_pc' = [c_pc EXCEPT ![t] = "test"]
    /\ c_call' = [c_call EXCEPT ![t] = f]
    /\ UNCHANGED << c_new, c_doc, c_self, c_heap, c_ref, h_built, h_ctor, h_reloads,
                    h_reads, _engine, db_file, resultVars, vitalsVars, diagVars,
                    reloadVars, pureVars,
                    findVars >>

\* "if _engine is None" of _get_engine, "if _engine is not None" of
\* reload_database
TestEngine(t) ==
    /\ c_pc[t] = "test"
    /\ c_pc' = [c_pc EXCEPT ![t] =
                  IF _engine = None THEN "construct"
                  ELSE IF c_call[t] = "reload_database" THEN "bind" ELSE "use"]
    /\ UNCHANGED << c_call, c_new, c_doc, c_self, c_heap, c_ref, h_built, h_ctor,
                    h_reloads, h_reads, _engine, db_file, resultVars, vitalsVars,
                    diagVars, reloadVars, pureVars,
                    findVars >>

\* the call PrescriptionEngine() on the right of "_engine = ...": a missing
\* file raises before anything is read; the engine built is a new object
ConstructEngine(t) ==
    /\ c_pc[t] = "construct"
    /\ \E e \in {PrescriptionEngine(db_file)} :
           /\ c_pc' = [c_pc EXCEPT ![t] = IF e.ok THEN "assign" ELSE "raised"]
           /\ c_heap' = IF e.ok THEN Append(c_heap, e.v) ELSE c_heap
           /\ c_new' = [c_new EXCEPT ![t] = IF e.ok THEN Len(c_heap) + 1 ELSE 0]
           /\ h_built' = IF e.ok THEN h_built + 1 ELSE h_built
    /\ h_ctor' = h_ctor + 1
    /\ h_reads' = IF db_file.exists THEN h_reads + 1 ELSE h_reads
    /\ UNCHANGED << c_call, c_doc, c_self, c_ref, h_reloads, _engine, db_file,
                    resultVars, vitalsVars, diagVars, reloadVars, pureVars,
                    findVars >>

\* the assignment "_engine = ..." of the constructed engine
AssignEngine(t) ==
    /\ c_pc[t] = "assign"
    /\ c_ref' = c_new[t]
    /\ _engine' = c_heap[c_new[t]]
    /\ c_pc' = [c_pc EXCEPT ![t] = IF c_call[t] = "reload_database" THEN "done" ELSE "use"]
    /\ UNCHANGED << c_call, c_new, c_doc, c_self, c_heap, h_built, h_ctor, h_reloads,
                    h_reads, db_file, resultVars, vitalsVars, diagVars, reloadVars,
                    pureVars,
                    findVars >>

\* "return _engine" of _get_engine: _engine is read, and the caller holds
\* the engine it has at that moment
ReturnEngine(t) ==
    /\ c_pc[t] = "use"
    /\ c_pc' = [c_pc EXCEPT ![t] = "call"]
    /\ c_self' = [c_self EXCEPT ![t] = c_ref]
    /\ UNCHANGED << c_call, c_new, c_doc, c_heap, c_ref, h_built, h_ctor, h_reloads,
                    h_reads, _engine, db_file, resultVars, vitalsVars, diagVars,
                    reloadVars, pureVars, findVars >>

\* the arguments of the calls
CallDiagnosis == Str("Malaria")

CallDrugId == Str("gh-001")

\* engine.find_drugs_for(diagnosis_input) of get_ghana_suggestions and
\* engine.get_drug_by_id(drug_id) of get_drug_by_id, on the database the
\* engine holds when its loop starts
EngineCall(f, database) ==
    IF f = "get_drug_by_id" THEN DrugById(database, CallDrugId)
    ELSE find_drugs_for(database, CallDiagnosis)

\* the call of the engine's method to its end: self.database is read once,
\* by the for statement, and an exception of the method leaves the call
CallEngine(t) ==
    /\ c_pc[t] = "call"
    /\ c_pc' = [c_pc EXCEPT ![t] =
                  IF EngineCall(c_call[t], c_heap[c_self[t]].database).ok THEN "done"
                  ELSE "raised"]
    /\ UNCHANGED << c_call, c_new, c_doc, c_self, c_heap, c_ref, h_built, h_ctor,
                    h_reloads, h_reads, _engine, db_file, resultVars, vitalsVars,
                    diagVars, reloadVars, pureVars, findVars >>

\* "_engine.reload_database()" of interface.reload_database: _engine is
\* read and the method is called on the engine it holds at that moment
ReloadBind(t) ==
    /\ c_pc[t] = "bind"
    /\ c_pc' = [c_pc EXCEPT ![t] = "read"]
    /\ c_self' = [c_self EXCEPT ![t] = c_ref]
    /\ h_reloads' = h_reloads + 1
    /\ UNCHANGED << c_call, c_new, c_doc, c_heap, c_ref, h_built, h_ctor, h_reads,
                    _engine, db_file, resultVars, vitalsVars, diagVars, reloadVars,
                    pureVars,
                    findVars >>

\* engine.reload_database up to json.load(f): the file is opened and read;
\* an exception ends the call
ReloadRead(t) ==
    /\ c_pc[t] = "read"
    /\ \E e \in {LoadFile(db_file)} :
           /\ c_pc' = [c_pc EXCEPT ![t] = IF e.ok THEN "store" ELSE "raised"]
           /\ c_doc' = [c_doc EXCEPT ![t] = IF e.ok THEN e.v ELSE None]
    /\ h_reads' = IF db_file.exists THEN h_reads + 1 ELSE h_reads
    /\ UNCHANGED << c_call, c_new, c_self, c_heap, c_ref, h_built, h_ctor, h_reloads,
                    _engine, db_file, resultVars, vitalsVars, diagVars, reloadVars,
                    pureVars,
                    findVars >>

\* engine.reload_database: the assignment to self.database of the engine
\* the method was called on, which _engine may hold no longer
ReloadStore(t) ==
    /\ c_pc[t] = "store"
    /\ c_pc' = [c_pc EXCEPT ![t] = "print"]
    /\ c_heap' = [c_heap EXCEPT ![c_self[t]] = [database |-> c_doc[t]]]
    /\ _engine' = IF c_self[t] = c_ref THEN [database |-> c_doc[t]] ELSE _engine
    /\ c_doc' = [c_doc EXCEPT ![t] = None]
    /\ UNCHANGED << c_call, c_new, c_self, c_ref, h_built, h_ctor, h_reloads, h_reads,
                    db_file, resultVars, vitalsVars, diagVars, reloadVars, pureVars,
                    findVars >>

\* engine.reload_database: the print, which reads self.database again and
\* takes its len; TypeError for a document without len
ReloadPrint(t) ==
    /\ c_pc[t] = "print"
    /\ c_pc' = [c_pc EXCEPT ![t] =
                  IF Sized(c_heap[c_self[t]].database) THEN "done" ELSE "raised"]
    /\ UNCHANGED << c_call, c_new, c_doc, c_self, c_heap, c_ref, h_built, h_ctor,
                    h_reloads, h_reads, _engine, db_file, resultVars, vitalsVars,
                    diagVars, reloadVars, pureVars,
                    findVars >>

\* the catalog files during the calls: a catalog, a JSON number, no file
CallFiles == { FileOf(FirstCatalog), FileOf(IntNum(5)), NoFile }

CallsNext ==
    \/ \E t \in Threads :
           \/ \E f \in InterfaceCalls : CallInterface(t, f)
           \/ TestEngine(t)
           \/ ConstructEngine(t)
           \/ AssignEngine(t)
           \/ ReturnEngine(t)
           \/ CallEngine(t)
           \/ ReloadBind(t)
           \/ ReloadRead(t)
           \/ ReloadStore(t)
           \/ ReloadPrint(t)
    \/ \E file \in CallFiles : ReplaceFile(file)

\* the module after import, the catalog file present or missing
InitCalls ==
    /\ GROQ_API_KEY = FALSE
    /\ db_file \in CallFiles
    /\ VitalsInit /\ DiagInit /\ DrugsInit /\ ReloadInit
    /\ ExtractInit /\ NormalizeInit /\ RegexInit
    /\ c_pc = [t \in Threads |-> "idle"]
    /\ c_call = [t \in Threads |-> "none"]
    /\ c_new = [t \in Threads |-> 0]
    /\ c_doc = [t \in Threads |-> None]
    /\ c_self = [t \in Threads |-> 0]
    /\ c_heap = << >>
    /\ c_ref = 0
    /\ h_built = 0
    /\ h_ctor = 0
    /\ h_reloads = 0
    /\ h_reads = 0
    /\ FindInit

SpecCalls == InitCalls /\ [][CallsNext]_vars

(***************************************************************************)
(* Properties of the vitals flow (SpecVitals)                              *)
(***************************************************************************)

VitalFields == {VitalKeys[k] : k \in 1..Len(VitalKeys)}

\* v is a record of exactly the five vitals, each None or a str
IsVitalsRecord(v) ==
    /\ DOMAIN v = VitalFields
    /\ \A f \in VitalFields : v[f] = None \/ (v[f].t = "str" /\ v[f] = Str(v[f].s))

\* the service timed out, or answered with an empty completion
TimeoutOrEmpty == {Timeout, OkResponse("")}

\* C1: extract_vitals_hybrid never fails.  Whatever the transcript and the
\* service's behaviour, no exception leaves the call: at a call of the service
\* every one of its behaviours is turned into a returned dict.  The call is
\* over after at most two service calls and one regex pass, and the returned
\* value is a record of exactly the five fields bp, temp, pulse, spo2, weight,
\* each null or a string.  A timeout gives what an empty completion gives:
\* the primary call returns the empty dict, and when both calls end so the
\* result is what the regex strategy returned.
C1_NeverFails ==
    /\ v_pc \in {"idle", "step1", "step2", "step3", "done"}
    /\ v_posts <= 2 /\ v_regex_runs <= 1
    /\ (v_pc = "step1" \/ (v_pc = "step3" /\ Len(missing) > 0 /\ GROQ_API_KEY))
           => \A resp \in ServiceAnswers :
                  extract_vitals_groq_api(GROQ_API_KEY, resp).ok
    /\ v_pc = "done" => IsVitalsRecord(v_returned)
    /\ (v_pc \notin {"idle", "step1"} /\ resp1 \in TimeoutOrEmpty)
           => vitals_groq = EmptyDict
    /\ (v_pc = "done" /\ resp1 \in TimeoutOrEmpty
          /\ resp2 \in TimeoutOrEmpty \cup {NoResponse})
           => v_returned = regex_yield

\* C1 witness: the service raised on the first call and timed out on the
\* retry, and the call returned the regex values of the transcript
C1_Witness ==
    /\ v_pc = "done"
    /\ resp1 = OtherException
    /\ resp2 = Timeout
    /\ v_posts = 2
    /\ v_returned = [NoVitals EXCEPT !.pulse = Str("75")]

\* C2 (as amended): the merge happens only after the first primary call
\* yielded no non-empty field.  Then the returned record takes every field
\* the regex strategy filled from regex, and every field regex left null
\* from the retried primary call when that one is non-empty there, else
\* null.  A first primary record with a non-empty field is returned as it
\* is, its null fields included.
C2_MergeRegexFirst ==
    /\ (v_pc = "done" /\ v_regex_runs = 1) =>
          \A f \in VitalFields :
              v_returned[f] =
                 IF regex_yield[f] # None THEN regex_yield[f]
                 ELSE IF groq_norm_retry # None /\ groq_norm_retry[f] \notin {None, Str("")}
                      THEN groq_norm_retry[f]
                      ELSE None
    /\ (v_pc = "done" /\ v_regex_runs = 0) => v_returned = groq_norm

\* C2 witness: regex found the blood pressure only, the retry answered with
\* another blood pressure and a pulse; regex's bp is kept, the pulse filled
C2_Witness ==
    /\ v_pc = "done"
    /\ v_regex_runs = 1
    /\ groq_norm_retry # None
    /\ groq_norm_retry.bp = Str("110/70")
    /\ v_returned.bp = Str("120/80")
    /\ v_returned.pulse = Str("80")

\* C2 as stated: when the primary record has null and non-null fields, the
\* returned record takes primary's non-null fields from primary and the
\* others from regex
C2_PrimaryWinsRegexFills ==
    (/\ v_pc = "done"
     /\ groq_norm # None
     /\ \E f \in VitalFields : groq_norm[f] = None
     /\ \E f \in VitalFields : groq_norm[f] # None)
    => \A rx \in {extract_vitals_regex(transcript)} :
       \A f \in VitalFields :
           v_returned[f] = IF groq_norm[f] # None THEN groq_norm[f] ELSE rx[f]

\* C3: primary short-circuit.  Once the first primary call has yielded a
\* normalized record with a non-empty field, that record is what the call
\* returns, the regex strategy has not run and the service was called once.
C3_PrimaryShortCircuit ==
    (/\ v_pc \notin {"idle", "step1"}
     /\ groq_norm # None
     /\ \E f \in VitalFields : groq_norm[f] \notin {None, Str("")})
    => /\ v_pc = "done"
       /\ v_returned = groq_norm
       /\ v_regex_runs = 0
       /\ v_posts = 1
       /\ resp2 = NoResponse

\* C3 witness: the transcript names a blood pressure, the primary call found
\* a pulse only, and the call is over with the primary record
C3_Witness ==
    /\ v_pc = "done"
    /\ transcript = "bp 120/80"
    /\ v_returned = [NoVitals EXCEPT !.pulse = Str("80")]
    /\ v_regex_runs = 0
    /\ v_posts = 1

(***************************************************************************)
(* Properties of the diagnosis flow (SpecDiag)                             *)
(***************************************************************************)

\* the request is over
DiagDone == d_pc = "done"

\* the request was answered with a diagnosis list
DiagSucceeded == DiagDone /\ d_response.status = 200

\* C4: no silent empty-success for diagnosis.  Every finished diagnose or
\* confirm_diagnosis request either carries a non-empty diagnosis list with
\* status 200 or is a failure (400, 500) without a list; when
\* _get_groq_diagnosis gave nothing, or every item lacked a condition, the
\* request is a 500.
C4_NoEmptySuccess ==
    DiagDone =>
        /\ \/ d_response.status = 200 /\ Len(d_response.list) > 0
           \/ d_response.status \in {400, 500} /\ d_response.list = << >>
        /\ (Strip(d_symptoms) # "" /\ (~diagnoses_raw.ok \/ diagnoses_raw.v = EmptyList))
               => d_response.status = 500

\* C4 witness: the completion was an array whose only item has no
\* condition, and the request failed with 500
C4_Witness ==
    /\ DiagDone
    /\ d_endpoint = "confirm_diagnosis"
    /\ d_resp = OkResponse("[{\"probability\": 0.3}]")
    /\ d_response = Response(500, << >>)

\* C5 as stated: a request that fails after the service was called has
\* called it exactly twice, the second call being the retry
C5_OneRetryBeforeFailure ==
    (DiagDone /\ d_response.status = 500 /\ d_resp # NoResponse) => d_posts = 2

\* C6 as stated: a returned diagnosis list has at most 3 items
C6_AtMostThreeItems ==
    DiagSucceeded => Len(d_response.list) <= 3

\* the number v lies in [0.0, 1.0]
InUnitInterval(v) == v.t = "num" /\ 0 <= v.m /\ v.m <= Pow10(v.e)

\* C7 as stated: every returned probability lies in [0.0, 1.0]
C7_ProbabilityClamped ==
    DiagSucceeded =>
        \A k \in 1..Len(d_response.list) :
            InUnitInterval(Lookup(d_response.list[k], "probability"))

(***************************************************************************)
(* Properties of the prescription module (SpecDrugs)                       *)
(***************************************************************************)

\* the last call went through the engine and returned
EngineAnswered ==
    g_result.ok /\ ~IsInvalidInput(diagnosis_input) /\ _engine # None

\* some tag of the drug, lower-cased and trimmed, occurs in dl
TrimmedTagIn(drug, dl) ==
    LET tags == DictGet(drug, "indications_tags", EmptyList)
    IN  /\ tags.t = "arr"
        /\ \E k \in 1..Len(tags.items) :
               /\ tags.items[k].t = "str"
               /\ Contains(Strip(Lower(tags.items[k].s)), dl)

\* some tag of the drug, lower-cased, occurs in dl
LowerTagIn(drug, dl) ==
    LET tags == DictGet(drug, "indications_tags", EmptyList)
    IN  /\ tags.t = "arr"
        /\ \E k \in 1..Len(tags.items) :
               /\ tags.items[k].t = "str"
               /\ Contains(Lower(tags.items[k].s), dl)

\* how often the drug occurs in the sequence
Occurrences(drug, seq) == Cardinality({i \in 1..Len(seq) : seq[i] = drug})

\* C8 (as amended): for a diagnosis that is not blank, a catalog entry is in
\* the result of find_drugs_for if and only if one of its string tags,
\* lower-cased and trimmed, is a substring of the lower-cased, trimmed
\* diagnosis; it is there exactly once, and nothing else is in the result.
\* For a blank diagnosis the result is empty.
C8_MembershipTrimmedTags ==
    EngineAnswered =>
        LET dl  == Strip(Lower(diagnosis_input.s))
            cat == _engine.database.items
        IN  /\ \A k \in 1..Len(cat) :
                   Occurrences(cat[k], g_matches) =
                       IF dl # "" /\ TrimmedTagIn(cat[k], dl) THEN 1 ELSE 0
            /\ \A i \in 1..Len(g_matches) : \E k \in 1..Len(cat) : cat[k] = g_matches[i]

\* C8 witness: of three entries the first matches by two tags and is there
\* once, the second matches by a padded upper-case tag, the third has tags
\* that are no list
C8_Witness ==
    /\ EngineAnswered
    /\ diagnosis_input = Str("Severe Malaria with fever")
    /\ _engine.database.items = << DrugPool[1], DrugPool[2], DrugPool[6] >>
    /\ g_matches = << DrugPool[1], DrugPool[2] >>

\* C8 as stated: an entry is in the result if and only if one of its tags,
\* lower-cased, is a substring of the lower-cased, trimmed diagnosis
C8_MembershipLowerCasedTags ==
    EngineAnswered =>
        LET dl  == Strip(Lower(diagnosis_input.s))
            cat == _engine.database.items
        IN  \A k \in 1..Len(cat) :
                Occurrences(cat[k], g_matches) = IF LowerTagIn(cat[k], dl) THEN 1 ELSE 0

\* the NHIS priority of an entry: A, B, C in either case, anything else last
LevelRank(drug) ==
    LET level == DictGet(drug, "nhis_level", Str("")).s
    IN  CASE level \in {"A", "a"} -> 1
          [] level \in {"B", "b"} -> 2
          [] level \in {"C", "c"} -> 3
          [] OTHER -> 999

\* the place of an entry in the catalog
CatalogIndex(drug) ==
    CHOOSE k \in 1..Len(_engine.database.items) : _engine.database.items[k] = drug

\* C9: the result of find_drugs_for is sorted by NHIS priority, A before B
\* before C before every other level, and entries of equal priority keep
\* the order they have in the catalog.
C9_SortedStable ==
    EngineAnswered =>
        \A i, j \in 1..Len(g_matches) :
            i < j =>
                /\ LevelRank(g_matches[i]) <= LevelRank(g_matches[j])
                /\ LevelRank(g_matches[i]) = LevelRank(g_matches[j])
                       => CatalogIndex(g_matches[i]) < CatalogIndex(g_matches[j])

\* C9 witness: the catalog holds a B entry, an A entry and another B entry;
\* all three match, the A entry comes first and the B entries keep their order
C9_Witness ==
    /\ EngineAnswered
    /\ _engine.database.items = << DrugPool[2], DrugPool[3], DrugPool[7] >>
    /\ g_matches = << DrugPool[3], DrugPool[2], DrugPool[7] >>

\* C10: the status of a returned response.  It is "success" exactly when
\* the engine found a match, then with the matches in the engine's order and
\* count their number; otherwise, and for an empty or invalid input, it is
\* "not_found" with no matches and count 0.  An invalid input is always
\* answered, and so is every input once the catalog is loaded.
C10_StatusDiscriminant ==
    /\ g_result.ok =>
          /\ g_result.v.status \in {"success", "not_found"}
          /\ g_result.v.status = "success" <=> Len(g_matches) > 0
          /\ g_result.v.count = Len(g_result.v.matches)
          /\ Len(g_result.v.matches) = Len(g_matches)
          /\ \A k \in 1..Len(g_matches) : g_result.v.matches[k] = FormatMatch(g_matches[k])
          /\ g_result.v.status = "not_found"
                 => g_result.v.matches = << >> /\ g_result.v.count = 0
    /\ (g_result # NoResult /\ (IsInvalidInput(diagnosis_input) \/ _engine # None))
           => g_result.ok
    /\ (g_result # NoResult /\ IsInvalidInput(diagnosis_input))
           => g_result.v.status = "not_found"

\* C10 witness: two entries matched "Malaria" and the response reports
\* success with both, in the engine's order
C10_Witness ==
    /\ g_result.ok
    /\ diagnosis_input = Str("Malaria")
    /\ g_result.v.status = "success"
    /\ g_result.v.count = 2
    /\ g_matches = << DrugPool[3], DrugPool[5] >>

(***************************************************************************)
(* Properties of the catalog over the life of the process (SpecCatalog)    *)
(***************************************************************************)

\* C11 (SpecFind): after any sequence of find_drugs_for,
\* get_ghana_suggestions and get_drug_by_id calls on a loaded engine, the
\* list self.database holds the entries it was loaded with, in the same
\* order and each with the value it had, and a call that repeats an earlier
\* one, the same method with the same argument, returns what the first such
\* call returned
C11_CatalogUnchangedIdempotent ==
    /\ f_database # 0 => ListValue(f_heap, f_database) = h_loaded
    /\ f_call # NoCall => f_result = h_first[f_call]

\* C11 witness: a catalog that holds an entry without level and a B entry
\* before an A entry was searched for "Malaria" a second time, after
\* get_ghana_suggestions and get_drug_by_id were called; the call returned
\* a list of its own with the A entry first, and the catalog stands as
\* loaded
C11_Witness ==
    /\ f_repeat
    /\ f_call = [op |-> "find_drugs_for", arg |-> Str("Malaria")]
    /\ f_result = Returned(Arr(<< DrugPool[1], DrugPool[5] >>))
    /\ f_returned # f_database
    /\ h_first[[op |-> "get_ghana_suggestions", arg |-> Str("Malaria")]].ok
    /\ h_first[[op |-> "get_drug_by_id", arg |-> Str("gh-001")]] = Returned(DrugPool[1])
    /\ ListValue(f_heap, f_database) = << DrugPool[5], DrugPool[2], DrugPool[1] >>

\* C13 as stated: after any sequence of load and reload operations the
\* catalog the engine holds is a JSON array
C13_CatalogIsArray ==
    _engine # None => _engine.database.t = "arr"

\* C14 as stated: while the catalog cannot be loaded, every call of
\* get_ghana_suggestions that has ended has failed, whatever its input
C14_UnavailableNeverAnswered ==
    (g_result # NoResult /\ _engine = None /\ ~PrescriptionEngine(db_file).ok)
        => ~g_result.ok

(***************************************************************************)
(* Properties of the engine under a concurrent reload (SpecReload)         *)
(***************************************************************************)

\* the matches among the first n entries of the catalog, unsorted
MatchesOfPrefix(catalog, n, diagnosis_lower) ==
    SelectSeq(SubSeq(Entries(catalog), 1, n),
              LAMBDA drug : DrugMatches(drug, diagnosis_lower))

\* C12: reload atomicity.  A find_drugs_for call that runs while
\* reload_database replaces the catalog returns the result of one complete
\* catalog the engine held during the call, and in its loop the matches
\* collected so far are those of the entries read so far of one such
\* catalog; no mix of old and new entries is observed
C12_ReloadAtomic ==
    /\ (m_pc = "done" /\ h_during # {}) =>
           \E catalog \in h_during :
               m_result = MatchAndSort(catalog, Strip(Lower(m_diagnosis.s)))
    /\ m_pc = "loop" =>
           \E catalog \in h_during :
               /\ m_i <= Len(Entries(catalog))
               /\ m_matches = MatchesOfPrefix(catalog, m_i, Strip(Lower(m_diagnosis.s)))

\* C12 witness: the catalog was replaced while the loop was at its second
\* entry; the call returned the matches of the old catalog, which differ
\* from those of the new one
C12_Witness ==
    /\ m_pc = "done"
    /\ m_diagnosis = Str("Malaria")
    /\ h_during = {FirstCatalog, Arr(<< DrugPool[3], DrugPool[4], DrugPool[1] >>)}
    /\ heap[db_ref] = Arr(<< DrugPool[3], DrugPool[4], DrugPool[1] >>)
    /\ m_result = << DrugPool[1] >>
    /\ m_result # MatchAndSort(heap[db_ref], "malaria")

(***************************************************************************)
(* Properties of _robust_json_extract (SpecExtract)                        *)
(***************************************************************************)

\* the body is a well-formed JSON object
ObjectEmbedded == json_loads(x_input.body).ok /\ json_loads(x_input.body).v.t = "obj"

\* the body is a well-formed JSON array
ArrayEmbedded == json_loads(x_input.body).ok /\ json_loads(x_input.body).v.t = "arr"

\* s holds a typographic quotation mark
HasTypographicQuote(s) ==
    \E q \in {LDQuote, RDQuote, LSQuote, RSQuote} : Contains(q, s)

\* the extractor returned the value of parsing the body directly
BodyRecovered == x_result = Returned(json_loads(x_input.body).v)

\* C15, the part that holds: round trip.  A well-formed JSON object that holds no
\* typographic quotation mark is recovered, equal to parsing it directly,
\* when it stands in a markdown fence, whatever the prose around the
\* fence, and when it stands bare in prose that has no opening brace
\* before it and no closing brace after it
C15_RoundTripPlainObject ==
    (/\ x_pc = "done"
     /\ ObjectEmbedded
     /\ ~HasTypographicQuote(x_input.body)
     /\ \/ x_input.wrap # "bare"
        \/ ~Contains("{", x_input.prefix) /\ ~Contains("}", x_input.suffix))
    => BodyRecovered

\* C15 witness: a nested object with a brace inside a string value, bare
\* between two pieces of prose, and the same object recovered
C15_Witness ==
    /\ x_pc = "done"
    /\ x_input = [prefix |-> "List [1] follows: ",
                  body |-> "{\"a\": {\"b\": [1, 2]}, \"c\": \"x}y\"}",
                  suffix |-> " Thanks.", wrap |-> "bare"]
    /\ x_result.ok
    /\ Lookup(x_result.v, "c") = Str("x}y")
    /\ Lookup(Lookup(x_result.v, "a"), "b") = Arr(<< IntNum(1), IntNum(2) >>)

\* C15 as stated: every well-formed JSON object, in whatever prose or
\* fence, is recovered equal to parsing it directly
C15_RoundTripEveryObject ==
    (x_pc = "done" /\ ObjectEmbedded) => BodyRecovered

\* C16 as stated: a truncated array, given as the whole text, is closed
\* after its last complete object and returned as an array
C16_TruncatedArrayRecovered ==
    (/\ x_pc = "done"
     /\ x_input.body \in TruncatedBodies
     /\ x_input.wrap = "bare" /\ x_input.prefix = "" /\ x_input.suffix = "")
    => x_result = Returned(json_loads("[{\"a\":1},{\"b\":2}]").v)

\* the opener that occurs first in the text, "" when there is none
FirstOpener(text) ==
    IF Find(text, "{") = 0 /\ Find(text, "[") = 0 THEN ""
    ELSE IF Find(text, "[") = 0 THEN "{"
    ELSE IF Find(text, "{") = 0 THEN "["
    ELSE IF Find(text, "{") < Find(text, "[") THEN "{" ELSE "["

\* the text has an opener with its own closer after it
HasPair(text) ==
    \/ Find(text, "{") > 0 /\ RFind(text, "}") > Find(text, "{")
    \/ Find(text, "[") > 0 /\ RFind(text, "]") > Find(text, "[")

\* C17 as stated: a fenced object or array is what the extractor returns;
\* without a fence, a text whose first opener is a bracket never yields an
\* object; a text with no opener and closer pair makes the extraction fail
C17_CandidateSelection ==
    x_pc = "done" =>
        /\ (/\ x_input.wrap # "bare"
            /\ ObjectEmbedded \/ ArrayEmbedded
            /\ ~HasTypographicQuote(x_input.body)) => BodyRecovered
        /\ (/\ x_input.wrap = "bare"
            /\ FirstOpener(TextOf(x_input)) = "["
            /\ x_result.ok) => x_result.v.t = "arr"
        /\ ~HasPair(TextOf(x_input)) => ~x_result.ok

(***************************************************************************)
(* Properties of _normalize_vitals (SpecNormalize)                         *)
(***************************************************************************)

\* the accepted keys of each canonical field, in their order
Aliases ==
    [bp     |-> << "bp", "blood_pressure", "bloodPressure" >>,
     temp   |-> << "temp", "temperature" >>,
     pulse  |-> << "pulse", "hr", "heart_rate", "heartRate" >>,
     spo2   |-> << "spo2", "SpO2", "o2sat", "oxygen_saturation", "oxygenSaturation" >>,
     weight |-> << "weight", "wt", "body_weight", "bodyWeight" >>]

\* obj carries key with a value that is neither null nor the empty string
Present(obj, key) ==
    HasKey(obj, key) /\ Lookup(obj, key) # None /\ Lookup(obj, key) # Str("")

\* the positions in the alias order of field f whose key obj carries
PresentAliases(obj, f) == {k \in 1..Len(Aliases[f]) : Present(obj, Aliases[f][k])}

\* the value obj carries under the earliest accepted key of field f
FirstPresent(obj, f) ==
    Lookup(obj, Aliases[f][CHOOSE k \in PresentAliases(obj, f) :
                             \A j \in PresentAliases(obj, f) : k <= j])

\* obj without the members whose key is not an accepted key of field f
OnlyAliasesOf(obj, f) ==
    LET keep == SelectSeq([k \in 1..Len(obj.keys) |-> k] \o << >>,
                          LAMBDA k : \E j \in 1..Len(Aliases[f]) :
                                        obj.keys[k] = Aliases[f][j])
    IN  Obj([k \in 1..Len(keep) |-> obj.keys[keep[k]]] \o << >>,
            [k \in 1..Len(keep) |-> obj.vals[keep[k]]] \o << >>)

\* C18: output typing and no loss.  For every object, every field of the
\* result is null or a plain string.  A field is null exactly when none of
\* its accepted keys carries a value other than null and the empty string.
\* Otherwise the field is made from a value the object carries under one of
\* its accepted keys: a number is stringified, a string is trimmed, an array
\* or an object is serialized to its JSON text, and a boolean becomes a
\* non-empty string.
C18_OutputTypingNoLoss ==
    (n_pc = "done" /\ n_input.t = "obj") =>
        \A f \in VitalFields :
            /\ n_result[f] = None \/ (n_result[f].t = "str" /\ n_result[f] = Str(n_result[f].s))
            /\ (n_result[f] = None) <=> (PresentAliases(n_input, f) = {})
            /\ PresentAliases(n_input, f) # {} =>
                 \E k \in PresentAliases(n_input, f) :
                    \E v \in {Lookup(n_input, Aliases[f][k])} :
                       CASE v.t = "num"  -> n_result[f] = Str(PyStr(v))
                         [] v.t = "str"  -> n_result[f] = Str(Strip(v.s))
                         [] v.t = "bool" -> n_result[f].s # ""
                         [] OTHER        -> n_result[f] = Str(json_dumps(v))

\* an object with an array under bp and the empty string under heart_rate
\* was normalized: bp is the array's JSON text and pulse is null
C18_Witness ==
    /\ n_pc = "done"
    /\ n_input = Obj(<< "heart_rate", "bp" >>, << Str(""), Arr(<< IntNum(1), IntNum(2) >>) >>)
    /\ n_result.bp = Str("[1, 2]")
    /\ n_result.pulse = None

\* C19: alias priority.  For every object and every field, the field is made
\* from the value under the earliest accepted key, in the fixed order, that is
\* present with a value other than null and the empty string, whatever the
\* order of the members in the object; the members under keys of other fields
\* do not influence it; and {"heart_rate": 88} gives pulse "88" with every
\* other field null.
C19_AliasPriority ==
    (n_pc = "done" /\ n_input.t = "obj") =>
        /\ \A f \in VitalFields :
              /\ PresentAliases(n_input, f) # {} =>
                    n_result[f] = Coerce(FirstPresent(n_input, f))
              /\ n_result[f] = _normalize_vitals(OnlyAliasesOf(n_input, f))[f]
        /\ n_input = Obj(<< "heart_rate" >>, << IntNum(88) >>) =>
              n_result = [bp |-> None, temp |-> None, pulse |-> Str("88"),
                          spo2 |-> None, weight |-> None]

\* an object carrying heart_rate before hr was normalized, and pulse is the
\* value under hr, the earlier of the two in the alias order
C19_Witness ==
    /\ n_pc = "done"
    /\ n_input = Obj(<< "heart_rate", "hr" >>, << IntNum(88), Str(" 72 ") >>)
    /\ n_result.pulse = Str("72")

\* C20: _normalize_vitals never fails.  For every JSON value the call returns
\* a record of the five fields, and for every value that is not an object
\* (array, string, number, boolean, null) every one of the five is null.
C20_NeverFails ==
    n_pc = "done" =>
        /\ DOMAIN n_result = {"bp", "temp", "pulse", "spo2", "weight"}
        /\ n_input.t # "obj" =>
              \A f \in {"bp", "temp", "pulse", "spo2", "weight"} : n_result[f] = None

\* an array that holds an object with a pulse was normalized to five nulls
C20_Witness ==
    /\ n_pc = "done"
    /\ n_input = Arr(<< Obj(<< "pulse" >>, << IntNum(80) >>) >>)
    /\ \A f \in {"bp", "temp", "pulse", "spo2", "weight"} : n_result[f] = None

(***************************************************************************)
(* Properties of extract_vitals_regex (SpecRegex)                          *)
(***************************************************************************)

\* the positions in patterns of the patterns that match text and, when
\* ranged, capture a number within 70..100
Hits(patterns, text, ranged) ==
    {k \in 1..Len(patterns) :
        \E m \in {ReSearch(patterns[k], text)} :
            m.found /\ (ranged => StrToNat(m.g[1], 0) \in 70..100)}

\* the match of the earliest pattern of hits
EarliestHit(patterns, text, hits) ==
    ReSearch(patterns[CHOOSE k \in hits : \A j \in hits : k <= j], text)

\* C21: spo2 range validation.  The returned spo2 is the number captured by
\* the first pattern of the spo2 list, in its order, whose match on the
\* lower-cased transcript is a number within 70..100; a pattern whose match
\* is outside is passed over; spo2 is null when no pattern has such a match,
\* as for "spo2 of 45".
C21_SpO2RangeValidated ==
    p_pc = "done" =>
        /\ \E hits \in {Hits(spo2_patterns, Lower(p_text), TRUE)} :
              IF hits = {} THEN p_result.spo2 = None
              ELSE p_result.spo2 = Str(EarliestHit(spo2_patterns, Lower(p_text), hits).g[1])
        /\ p_result.spo2 # None => StrToNat(p_result.spo2.s, 0) \in 70..100
        /\ p_text = "spo2 of 45" => p_result.spo2 = None

\* "spo2 45" matched the first pattern outside the range, and the value of a
\* later pattern, within the range, was returned
C21_Witness ==
    /\ p_pc = "done"
    /\ p_text = "spo2 45, 97% oxygen"
    /\ p_result.spo2 = Str("97")

\* C22: pattern priority and field independence.  Each of bp, temp, pulse and
\* weight is taken from the first pattern of its own list, in the list's
\* order, that matches the lower-cased transcript, and is null when none
\* matches; nothing but the field's own list and the transcript determines
\* it.  "BP is 140 over 90, pulse 72 bpm" gives bp "140/90" and pulse "72".
C22_PatternPriority ==
    p_pc = "done" =>
        /\ \E hits \in {Hits(bp_patterns, Lower(p_text), FALSE)} :
              IF hits = {} THEN p_result.bp = None
              ELSE \E m \in {EarliestHit(bp_patterns, Lower(p_text), hits)} :
                      p_result.bp = Str(m.g[1] \o "/" \o m.g[2])
        /\ \E hits \in {Hits(temp_patterns, Lower(p_text), FALSE)} :
              IF hits = {} THEN p_result.temp = None
              ELSE p_result.temp = Str(EarliestHit(temp_patterns, Lower(p_text), hits).g[1])
        /\ \E hits \in {Hits(pulse_patterns, Lower(p_text), FALSE)} :
              IF hits = {} THEN p_result.pulse = None
              ELSE p_result.pulse = Str(EarliestHit(pulse_patterns, Lower(p_text), hits).g[1])
        /\ \E hits \in {Hits(weight_patterns, Lower(p_text), FALSE)} :
              IF hits = {} THEN p_result.weight = None
              ELSE p_result.weight = Str(EarliestHit(weight_patterns, Lower(p_text), hits).g[1])
        /\ p_text = "BP is 140 over 90, pulse 72 bpm" =>
              p_result.bp = Str("140/90") /\ p_result.pulse = Str("72")

\* the transcript says "88 bpm" before "pulse 72 bpm": the first pulse
\* pattern matches the later phrase and wins over the fourth
C22_Witness ==
    /\ p_pc = "done"
    /\ p_text = "88 bpm, pulse 72 bpm"
    /\ p_result.pulse = Str("72")
    /\ p_result.bp = None

\* C27: _normalize_vitals is idempotent.  For every object, whitespace-only
\* strings among its values included, normalizing the normalized record gives
\* that record again.
C27_NormalizeIdempotent ==
    (n_pc = "twice" /\ n_input.t = "obj") => n_again = n_result

(***************************************************************************)
(* Further properties of the vitals flow (SpecVitals)                      *)
(***************************************************************************)

\* v is the decimal numeral of a number within 70..100
IsPercentInRange(v) ==
    /\ v.t = "str"
    /\ Len(v.s) > 0
    /\ \A k \in 1..Len(v.s) : At(v.s, k) \in Digits
    /\ StrToNat(v.s, 0) \in 70..100

\* C23: every record extract_vitals_hybrid returns has spo2 null or a value
\* within 70..100, whether the primary call, the regex strategy or the merge
\* of both supplied it.
C23_SpO2AlwaysInRange ==
    v_pc = "done" => (v_returned.spo2 = None \/ IsPercentInRange(v_returned.spo2))

\* C24: the gap-fill merge is field-level.  In the step that ends step 3, a
\* field the regex strategy filled keeps the regex value whatever the retry
\* returned for it; a field that was null after regex becomes the retry's
\* normalized value when there is one and it is non-empty, and stays null
\* otherwise.
C24_GapFillFieldLevel ==
    [][(v_pc = "step3" /\ v_pc' = "done") =>
          \A f \in VitalFields :
              IF vitals_regex[f] # None
              THEN v_returned'[f] = vitals_regex[f]
              ELSE IF groq_norm_retry' # None /\ groq_norm_retry'[f] \notin {None, Str("")}
              THEN v_returned'[f] = groq_norm_retry'[f]
              ELSE v_returned'[f] = None]_vars

\* regex read the blood pressure only; the retry carried another blood
\* pressure and a blank temperature: the regex value was kept and the
\* temperature stayed null
C24_Witness ==
    /\ v_pc = "done"
    /\ regex_yield = [NoVitals EXCEPT !.bp = Str("120/80")]
    /\ groq_norm_retry # None
    /\ groq_norm_retry.bp = Str("110/70")
    /\ groq_norm_retry.temp = Str("")
    /\ v_returned = [NoVitals EXCEPT !.bp = Str("120/80")]

\* C26: call budget.  In one request the completion service is called at
\* most twice and the regex strategy runs at most once.  The second call of
\* the service is made only once the regex strategy has run and left a field
\* null, with an API key configured, and never after a first call whose
\* normalized record had a non-empty field.
C26_CallBudget ==
    /\ [](/\ v_posts <= 2 /\ v_regex_runs <= 1
          /\ v_posts = 2 =>
                /\ v_regex_runs = 1
                /\ GROQ_API_KEY
                /\ \E f \in VitalFields : regex_yield[f] = None
                /\ groq_norm = None \/ \A f \in VitalFields : groq_norm[f] \in {None, Str("")})
    /\ [][(v_posts = 1 /\ v_posts' = 2) =>
             (v_pc = "step3" /\ v_regex_runs = 1
              /\ \E f \in VitalFields : vitals_regex[f] = None)]_vars

\* the regex strategy read all five vitals after a first call that found
\* nothing: the request ended with one call of the service, no retry
C26_Witness ==
    /\ v_pc = "done"
    /\ GROQ_API_KEY
    /\ transcript = FullTranscript
    /\ v_regex_runs = 1
    /\ v_posts = 1
    /\ \A f \in VitalFields : v_returned[f] # None

(***************************************************************************)
(* Further properties of the diagnosis flow (SpecDiag)                     *)
(***************************************************************************)

\* the items of the completion when its text is a JSON array, else none
CompletionItems ==
    IF d_resp.kind = "ok" /\ d_resp.content.t = "str"
       /\ json_loads(d_resp.content.s).ok /\ json_loads(d_resp.content.s).v.t = "arr"
    THEN json_loads(d_resp.content.s).v.items
    ELSE << >>

\* the non-empty values item carries under "condition" or "diagnosis"
NamedConditions(item) ==
    IF item.t # "obj" THEN {}
    ELSE {v \in {DictGet(item, "condition", None), DictGet(item, "diagnosis", None)} :
             v \notin {None, Str("")}}

\* C25: an item of the completion without a non-empty condition, under
\* "condition" and under "diagnosis", is discarded.  Every item of a returned
\* list has a condition that is neither null nor empty; when the completion
\* is a JSON array, each returned condition is one that an item of the array
\* carries under one of the two keys, and no more items are returned than the
\* array has items with such a value.
C25_NoConditionDiscarded ==
    DiagSucceeded =>
        /\ \A k \in 1..Len(d_response.list) :
              /\ HasKey(d_response.list[k], "condition")
              /\ Lookup(d_response.list[k], "condition") \notin {None, Str("")}
        /\ CompletionItems # << >> =>
              /\ \A k \in 1..Len(d_response.list) :
                    \E j \in 1..Len(CompletionItems) :
                       Lookup(d_response.list[k], "condition") \in NamedConditions(CompletionItems[j])
              /\ Len(d_response.list) <=
                    Cardinality({j \in 1..Len(CompletionItems) :
                                    NamedConditions(CompletionItems[j]) # {}})

\* the completion was an array of an item with an empty condition and one
\* with a condition: the returned list holds the second only
C25_Witness ==
    /\ DiagSucceeded
    /\ d_resp = OkResponse("[{\"condition\": \"\"}, {\"condition\": \"Flu\"}]")
    /\ Len(d_response.list) = 1
    /\ Lookup(d_response.list[1], "condition") = Str("Flu")

(***************************************************************************)
(* Further properties of the catalog (SpecCatalog)                         *)
(***************************************************************************)

\* the last reload_database call met an engine in place and raised
ReloadFailed ==
    /\ h_reload # None
    /\ h_reload.before # None
    /\ r_result = Raised

\* the file of the last reload_database call was missing or held text that
\* json.load rejects
FileUnread == ~LoadFile(h_reload.file).ok

\* the engine is the one of before the last reload_database call, and a
\* find_drugs_for call since returned what that engine's catalog gives
CatalogKept ==
    /\ _engine = h_reload.before
    /\ (g_since # "reload" /\ g_result.ok /\ ~IsInvalidInput(diagnosis_input)) =>
          g_matches = find_drugs_for(h_reload.before.database, diagnosis_input).v

\* C28: a failed reload leaves the catalog unchanged.  After a reload that
\* failed because the file was missing or could not be parsed, and until the
\* next reload, the engine holds the whole catalog it held before the
\* attempt, and every find_drugs_for call returns what the catalog of before
\* the attempt gives for its diagnosis.
C28_FailedReloadKeepsCatalog == (ReloadFailed /\ FileUnread) => CatalogKept

\* a reload failed on a missing file with a three-entry catalog in place,
\* and a later call for malaria found entries of that catalog
C28_Witness ==
    /\ ReloadFailed
    /\ ~h_reload.file.exists
    /\ h_reload.before.database = Arr(<< DrugPool[2], DrugPool[1], DrugPool[4] >>)
    /\ g_since # "reload"
    /\ diagnosis_input = Str("Malaria")
    /\ Len(g_matches) > 0

(***************************************************************************)
(* Properties of concurrent first calls (SpecCalls)                        *)
(***************************************************************************)

\* C29: single engine instance.  Whatever the interleaving of the threads'
\* first calls, at most one PrescriptionEngine is ever constructed, and the
\* catalog file is read once for each call of the constructor and once for
\* each reload of an engine, not once for each call of the interface.
C29_SingleEngine ==
    /\ h_built <= 1
    /\ h_reads <= h_ctor + h_reloads

(***************************************************************************)
(* Further properties of the prescription module (SpecDrugs)               *)
(***************************************************************************)

\* the entry has a list of tags, one of which is a string that is not blank
HasEvidenceTag(drug) ==
    \E tags \in {DictGet(drug, "indications_tags", EmptyList)} :
        /\ tags.t = "arr"
        /\ \E k \in 1..Len(tags.items) :
               tags.items[k].t = "str" /\ Strip(tags.items[k].s) # ""

\* C30: an entry is matched only on evidence in the diagnosis.  No entry
\* whose tags are all empty or whitespace-only strings, and no entry without
\* tags or with tags that are no strings, is in a result of find_drugs_for.
C30_MatchedOnEvidence ==
    EngineAnswered => \A i \in 1..Len(g_matches) : HasEvidenceTag(g_matches[i])

=============================================================================
